---- MODULE Spec2Model ----
(***************************************************************************)
(* Model of the feed build / cache / read pipeline of the feed manager     *)
(* (feed-manager/server/algos/feed.py, create_feed.py, app.py).            *)
(*                                                                         *)
(* One feed URI is modelled.  Tasks are asyncio tasks; one action is the   *)
(* code a task runs between two suspensions (a network await).  The feeds  *)
(* API answers every GET of the cache object, with the object it holds     *)
(* when the task resumes; a POST of it is served in one step, or fails,    *)
(* and returns in the next.  The cache object is only ever written by      *)
(* build_feed, so one with feed items always has an oldest_timestamp.      *)
(* Times are whole seconds.  Weights and scores are in thousandths.  A     *)
(* string is a sequence of symbols.                                        *)
(*                                                                         *)
(* Spec is the whole service; SpecBurst, SpecGuard, SpecRefresh and        *)
(* SpecPage are processes that only serve reads, and SpecSession adds a    *)
(* caller that pages through the feed; SpecHydrate and SpecPairing follow  *)
(* the hydration calls of one build; SpecGather, SpecSchedule, SpecSample, *)
(* SpecAdmit, SpecSnapshot, SpecScore, SpecCompare, SpecRelevance and      *)
(* SpecHash apply one function of the build to arguments drawn from        *)
(* bounded sets.                                                           *)
(***************************************************************************)
EXTENDS Integers, Sequences, FiniteSets, Bags, TLC

\* ------------------------------------------------------------------------
\* Program constants
\* ------------------------------------------------------------------------
FEED_CACHE_TTL == 300
RESPONSE_LIMIT == 10
FEED_LIMIT == 100
MAX_PER_AUTHOR == 10
MAX_AGE_SECONDS == 172800
ENDPOINT_LIMIT == 20
SEMAPHORE_VALUE == 10

\* ------------------------------------------------------------------------
\* Bounds of the model
\* ------------------------------------------------------------------------
MaxTasks == 2      \* tasks that can be live at once
MaxBurst == 3      \* the same, in a process that only serves reads
MaxTicks == 2      \* clock advances in one behaviour
MaxManage == 1     \* /manage-feed calls in one behaviour
MaxEntries == 25   \* feed items of a stored snapshot that is paged through
MaxFetches == 2    \* source fetches whose results are aggregated
MaxPerFetch == 2   \* posts one source fetch returns
MaxShort == 2      \* candidates of a build that are drawn freely
MaxOver == 2       \* candidates of one author beyond MAX_PER_AUTHOR
MaxExcess == 2     \* candidates of a build beyond target_collected
MaxShift == 2      \* places the order of a sample is turned by
MaxHydrate == 12   \* candidates of a build whose hydration calls are followed
MaxPaired == 3     \* candidates whose hydration answers arrive in any order
MaxTopics == 2     \* topic preferences of a feed whose relevance is looked at
MaxSources == 3    \* FeedSource rows of a feed whose fetches are scheduled
MaxHashed == 3     \* topic preferences of a blueprint whose hash is taken

\* None of Python, for times and for optional values kept in sequences
NoTime == 0 - 1
UNIT == 1000

\* ------------------------------------------------------------------------
\* The outside world: the posts the upstream APIs know, fixed
\* ------------------------------------------------------------------------
\* the time at which the process starts: post p1 is MAX_AGE_SECONDS old
\* when FEED_CACHE_TTL has passed
Now0 == MAX_AGE_SECONDS - FEED_CACHE_TTL

Uris == {"p1", "p2", "p3"}

\* app.bsky.feed.getPosts answer for a uri; createdAt = NoTime is a
\* createdAt string that datetime.fromisoformat rejects
World ==
  [ p1 |-> [present |-> TRUE, did |-> <<"did:a">>, text |-> <<"a", "b">>,
            createdAt |-> 0, likeCount |-> 50, replyCount |-> 0,
            repostCount |-> 0, quoteCount |-> 0],
    p2 |-> [present |-> TRUE, did |-> <<"did:b">>, text |-> <<"A", "c">>,
            createdAt |-> 170000, likeCount |-> 50, replyCount |-> 0,
            repostCount |-> 0, quoteCount |-> 0],
    p3 |-> [present |-> TRUE, did |-> <<"did:b">>, text |-> <<"c">>,
            createdAt |-> NoTime, likeCount |-> 1, replyCount |-> 1,
            repostCount |-> 0, quoteCount |-> 0] ]

\* {} of Python: what fetch_full_post returns for a post it did not get
EmptyPost ==
  [present |-> FALSE, did |-> <<>>, text |-> <<>>, createdAt |-> NoTime,
   likeCount |-> 0, replyCount |-> 0, repostCount |-> 0, quoteCount |-> 0]

\* app.bsky.feed.getAuthorFeed answer for an actor
AuthorFeed(did) ==
  IF did = <<"did:a">> THEN <<"p1">>
  ELSE IF did = <<"did:b">> THEN <<"p2", "p3">>
  ELSE <<>>

\* app.bsky.feed.searchPosts answer for a query; the text and the vector
\* search call the same endpoint
SearchPosts(query) ==
  IF query = <<"a">> THEN <<"p1", "p2">>
  ELSE IF query = <<"c">> THEN <<"p2", "p3", "p2">>
  ELSE <<>>

\* ------------------------------------------------------------------------
\* Strings
\* ------------------------------------------------------------------------
\* str.lower() on one symbol
LowerChar(c) == IF c = "A" THEN "a" ELSE IF c = "B" THEN "b" ELSE c

\* str.lower()
Lower(str) == [i \in 1..Len(str) |-> LowerChar(str[i])]

\* kw in text
IsSubstring(kw, text) ==
  \E i \in 0..(Len(text) - Len(kw)) :
     \A j \in 1..Len(kw) : text[i + j] = kw[j]

\* byte order of the symbols, as SQLite's ORDER BY compares TEXT
CharRank(c) ==
  CASE c = "A" -> 1 [] c = "B" -> 2 [] c = "a" -> 3 [] c = "b" -> 4
    [] c = "c" -> 5 [] c = "did:a" -> 6 [] c = "did:b" -> 7 [] OTHER -> 8

RECURSIVE StrLess(_, _)
StrLess(x, y) ==
  IF y = <<>> THEN FALSE
  ELSE IF x = <<>> THEN TRUE
  ELSE IF CharRank(Head(x)) # CharRank(Head(y))
       THEN CharRank(Head(x)) < CharRank(Head(y))
  ELSE StrLess(Tail(x), Tail(y))

\* byte order of the four source_type values
TypeRank(ty) ==
  CASE ty = "profile_filter" -> 1 [] ty = "profile_preference" -> 2
    [] ty = "topic_filter" -> 3 [] ty = "topic_preference" -> 4

\* ------------------------------------------------------------------------
\* Feed configuration: the Feed row and its FeedSource rows
\* ------------------------------------------------------------------------
\* a FeedSource row
Source(ty, id, w, acr, ctx) ==
  [source_type |-> ty, identifier |-> id, weight |-> w,
   is_acronym |-> acr, context |-> ctx]

\* the default of get_ranking_weights
DefaultRankingWeights ==
  [relevance |-> 500, popularity |-> 300, recency |-> 200]

\* Feed.ranking_weights is NULL (<<>>) or one JSON object (<<w>>)
get_ranking_weights(feed) ==
  IF feed.ranking_weights # <<>> THEN feed.ranking_weights[1]
  ELSE DefaultRankingWeights

\* ORDER BY source_type, identifier
SourceBefore(a, b) ==
  \/ TypeRank(a.source_type) < TypeRank(b.source_type)
  \/ /\ a.source_type = b.source_type
     /\ StrLess(a.identifier, b.identifier)

RECURSIVE InsertSource(_, _)
InsertSource(sorted, x) ==
  IF sorted = <<>> THEN <<x>>
  ELSE IF SourceBefore(x, Head(sorted)) THEN <<x>> \o sorted
  ELSE <<Head(sorted)>> \o InsertSource(Tail(sorted), x)

\* the rows as they were inserted
OrderAsInserted(rows) == rows

RECURSIVE OrderSources(_)
OrderSources(rows) ==
  IF rows = <<>> THEN <<>>
  ELSE InsertSource(OrderSources(SubSeq(rows, 1, Len(rows) - 1)),
                    rows[Len(rows)])

\* the blueprint that is hashed; SHA-256 is taken to be collision free, so
\* the digest is modelled by the JSON document it is computed from
compute_blueprint_hash(feed) ==
  LET ordered == OrderSources(feed.sources)
  IN  [sources |-> [i \in 1..Len(ordered) |->
                      [type |-> ordered[i].source_type,
                       identifier |-> ordered[i].identifier,
                       weight |-> ordered[i].weight]],
       ranking_weights |-> get_ranking_weights(feed)]

\* ------------------------------------------------------------------------
\* create_feed: a blueprint becomes the FeedSource rows of the feed
\* ------------------------------------------------------------------------
\* the rows create_feed inserts, in the order it inserts them
BlueprintRows(bp) ==
  [i \in 1..Len(bp.topic_preferences) |->
     Source("topic_preference", bp.topic_preferences[i].name,
            bp.topic_preferences[i].weight,
            bp.topic_preferences[i].is_acronym,
            bp.topic_preferences[i].context)]
  \o [i \in 1..Len(bp.profile_preferences) |->
     Source("profile_preference", bp.profile_preferences[i].did,
            bp.profile_preferences[i].weight, 0, <<>>)]
  \o [i \in 1..Len(bp.topic_filters) |->
     Source("topic_filter", bp.topic_filters[i].name,
            bp.topic_filters[i].weight, 0, <<>>)]
  \o [i \in 1..Len(bp.profile_filters) |->
     Source("profile_filter", bp.profile_filters[i].did,
            bp.profile_filters[i].weight, 0, <<>>)]

\* the unique index of FeedSource on (feed, source_type, identifier)
SameKey(a, b) ==
  a.source_type = b.source_type /\ a.identifier = b.identifier

\* how many rows FeedSource.create accepts before one raises IntegrityError
InsertedCount(rows) ==
  LET clash == {i \in 1..Len(rows) :
                  \E j \in 1..(i - 1) : SameKey(rows[j], rows[i])}
  IN  IF clash = {} THEN Len(rows)
      ELSE (CHOOSE i \in clash : \A k \in clash : i <= k) - 1

\* create_feed raises after it has deleted the old rows
CreateFeedRaises(bp) ==
  bp.given /\ InsertedCount(BlueprintRows(bp)) < Len(BlueprintRows(bp))

\* the Feed row and its sources once create_feed has run, or has raised
FeedAfterCreate(feed, bp) ==
  [ranking_weights |->
     IF bp.ranking_weights # <<>> /\ feed.ranking_weights # bp.ranking_weights
     THEN bp.ranking_weights ELSE feed.ranking_weights,
   access_jwt |-> feed.access_jwt,
   sources |->
     IF bp.given
     THEN SubSeq(BlueprintRows(bp), 1, InsertedCount(BlueprintRows(bp)))
     ELSE feed.sources]

Topic(name, w, acr, ctx) ==
  [name |-> name, weight |-> w, is_acronym |-> acr, context |-> ctx]

Profile(did, w) == [did |-> did, weight |-> w]

Blueprint(tp, pp, tf, pf, rw) ==
  [given |-> TRUE, topic_preferences |-> tp, profile_preferences |-> pp,
   topic_filters |-> tf, profile_filters |-> pf, ranking_weights |-> rw]

\* the blueprint the feed was registered with before the process started
Blueprint0 ==
  Blueprint(<<>>, <<Profile(<<"did:a">>, 500), Profile(<<"did:b">>, 500)>>,
            <<>>, <<>>, <<>>)

\* blueprint=None: the feed is registered again as it is
NoBlueprint ==
  [given |-> FALSE, topic_preferences |-> <<>>, profile_preferences |-> <<>>,
   topic_filters |-> <<>>, profile_filters |-> <<>>, ranking_weights |-> <<>>]

\* what /manage-feed is called with: a blueprint that replaces the profile
\* preferences by a topic preference, and no blueprint
Blueprints ==
  { Blueprint(<<Topic(<<"a">>, 500, 0, <<>>)>>, <<>>, <<>>, <<>>, <<>>),
    NoBlueprint }

Feed0 ==
  FeedAfterCreate([ranking_weights |-> <<>>, access_jwt |-> TRUE,
                   sources |-> <<>>], Blueprint0)

\* ------------------------------------------------------------------------
\* build_feed, stage 1: the source fetches
\* ------------------------------------------------------------------------
Take(seq, n) == SubSeq(seq, 1, IF Len(seq) < n THEN Len(seq) ELSE n)

\* a query for an acronym that leaves the context out
AcronymQueryBare(src) == src.identifier

\* f"{context} {src.identifier}" if context else src.identifier
AcronymQuery(src) ==
  IF src.context # <<>> THEN src.context \o <<" ">> \o src.identifier
  ELSE src.identifier

\* the coroutines build_feed puts in `tasks`
RECURSIVE FetchTasks(_, _)
FetchTasks(sources, seen_queries) ==
  IF sources = <<>> THEN <<>>
  ELSE LET src == Head(sources)
           rest == Tail(sources)
       IN  IF src.source_type = "profile_preference"
           THEN <<[call |-> "fetch_author_posts", arg |-> src.identifier]>>
                \o FetchTasks(rest, seen_queries)
           ELSE IF /\ src.source_type = "topic_preference"
                   /\ src.identifier \notin seen_queries
           THEN (IF src.is_acronym # 0
                 THEN <<[call |-> "search_vector", arg |-> AcronymQuery(src)]>>
                 ELSE <<[call |-> "search_text", arg |-> src.identifier],
                        [call |-> "search_vector", arg |-> src.identifier]>>)
                \o FetchTasks(rest, seen_queries \cup {src.identifier})
           ELSE FetchTasks(rest, seen_queries)

\* how one outbound call can end: a 200 answer, a non-success status (or a
\* timeout the function catches), an exception the function does not catch
CallOutcomes == {"ok", "fail", "raise"}

\* fetch_author_posts catches nothing: a timeout or a connection error raises
fetch_author_posts(actor, limit, outcome) ==
  IF outcome = "ok" THEN Take(AuthorFeed(actor), limit) ELSE <<>>

\* search_text and search_vector: no call without a token; the search cache
\* is never filled (get_cache_from_api returns None for 'search')
search_posts(query, access_jwt, limit, outcome) ==
  IF ~access_jwt THEN <<>>
  ELSE IF outcome = "ok" THEN Take(SearchPosts(query), limit)
  ELSE <<>>

FetchResult(task, access_jwt, limit, outcome) ==
  IF task.call = "fetch_author_posts"
  THEN fetch_author_posts(task.arg, limit, outcome)
  ELSE search_posts(task.arg, access_jwt, limit, outcome)

\* a call that raises makes asyncio.gather raise
FetchRaises(task, access_jwt, outcome) ==
  /\ outcome = "raise"
  /\ task.call = "fetch_author_posts" \/ access_jwt

RECURSIVE Flatten(_)
Flatten(results) ==
  IF results = <<>> THEN <<>> ELSE Head(results) \o Flatten(Tail(results))

\* no deduplication
DedupNone(collected) == collected

\* list({p["uri"]: p for p in collected}.values()): the first occurrences,
\* in their order
Dedup(collected) ==
  LET firsts == SelectSeq([i \in 1..Len(collected) |-> i],
                          LAMBDA i : \A j \in 1..(i - 1) :
                                       collected[j] # collected[i])
  IN  [k \in 1..Len(firsts) |-> collected[firsts[k]]]

collection_multiplier ==
  IF 2 > 10 \div MAX_PER_AUTHOR THEN 2 ELSE 10 \div MAX_PER_AUTHOR

target_collected == FEED_LIMIT * collection_multiplier

\* a sample of k members of a population: those left when the right number
\* of neighbours, from the first-th on and around the end, are taken out,
\* in the order of the population turned by shift places
SampleOf(population, k, first, shift) ==
  LET n == Len(population)
      left == {i \in 1..n : ((i - first) % n) >= n - k}
      kept == SelectSeq([i \in 1..n |-> [at |-> i, member |-> population[i]]],
                        LAMBDA x : x.at \in left)
  IN  [i \in 1..k |-> kept[((i - 1 + shift) % k) + 1].member]

\* no sampling
SampledWhole(collected) == {collected}

\* if len(collected) > target_collected:
\*     collected = random.sample(collected, target_collected)
\* random.sample returns that many members at distinct positions, in any
\* order: the samples SampleOf makes with shifts up to MaxShift
Sampled(collected) ==
  IF Len(collected) > target_collected
  THEN {SampleOf(collected, target_collected, first, shift) :
          first \in 1..Len(collected), shift \in 0..MaxShift}
  ELSE {collected}

\* collected.extend(r) for every result, then the deduplication
Aggregate(results) == Dedup(Flatten(results))

\* the candidates after gather, flattening and deduplication
Collected(tasks, access_jwt, limit, outcomes) ==
  Aggregate([i \in 1..Len(tasks) |->
               FetchResult(tasks[i], access_jwt, limit, outcomes[i])])

\* ------------------------------------------------------------------------
\* build_feed, stage 2: hydration, filtering, scoring
\* ------------------------------------------------------------------------
\* fetch_full_post: the post, or {} on a non-success status
fetch_full_post(uri, outcome) ==
  IF outcome = "ok" THEN World[uri] ELSE EmptyPost

\* extract_filters
BlockedDids(feed) ==
  {feed.sources[i].identifier : i \in
     {j \in 1..Len(feed.sources) :
        feed.sources[j].source_type = "profile_filter"}}

BannedKeywords(feed) ==
  {Lower(feed.sources[i].identifier) : i \in
     {j \in 1..Len(feed.sources) :
        feed.sources[j].source_type = "topic_filter"}}

\* a keyword test on the text as it is written
ShouldBlockCaseSensitive(full_post, blocked_dids, banned_keywords) ==
  \/ full_post.present /\ full_post.did \in blocked_dids
  \/ \E kw \in banned_keywords : IsSubstring(kw, full_post.text)

should_block_post(full_post, blocked_dids, banned_keywords) ==
  \/ full_post.present /\ full_post.did \in blocked_dids
  \/ \E kw \in banned_keywords : IsSubstring(kw, Lower(full_post.text))

\* the topic_preferences list and the profile_preferences set of build_feed
RECURSIVE TopicPreferences(_)
TopicPreferences(sources) ==
  IF sources = <<>> THEN <<>>
  ELSE (IF Head(sources).source_type = "topic_preference"
        THEN <<[name |-> Head(sources).identifier,
                weight |-> Head(sources).weight]>>
        ELSE <<>>) \o TopicPreferences(Tail(sources))

ProfilePreferences(sources) ==
  {sources[i].identifier : i \in
     {j \in 1..Len(sources) : sources[j].source_type = "profile_preference"}}

Min2(a, b) == IF a < b THEN a ELSE b

RECURSIVE TopicScore(_, _)
TopicScore(topic_preferences, text) ==
  IF topic_preferences = <<>> THEN 0
  ELSE (IF IsSubstring(Lower(Head(topic_preferences).name), text)
        THEN Head(topic_preferences).weight ELSE 0)
       + TopicScore(Tail(topic_preferences), text)

\* a relevance that is not capped
RelevanceUncapped(full_post, topic_preferences, profile_preferences) ==
  (IF full_post.present /\ full_post.did \in profile_preferences
   THEN UNIT ELSE 0)
  + TopicScore(topic_preferences, Lower(full_post.text))

compute_relevance_score(full_post, topic_preferences, profile_preferences) ==
  LET text == Lower(full_post.text)
  IN  Min2((IF full_post.present /\ full_post.did \in profile_preferences
            THEN UNIT ELSE 0)
           + (IF text # <<>> THEN TopicScore(topic_preferences, text) ELSE 0),
           UNIT)

\* floor(1000 * ln(1 + e) / 5) for e = 0..148
Log1pTable ==
  <<0, 138, 219, 277, 321, 358, 389, 415, 439, 460, 479, 496, 512, 527,
    541, 554, 566, 578, 588, 599, 608, 618, 627, 635, 643, 651, 659, 666,
    673, 680, 686, 693, 699, 705, 711, 716, 722, 727, 732, 737, 742, 747,
    752, 756, 761, 765, 770, 774, 778, 782, 786, 790, 794, 797, 801, 805,
    808, 812, 815, 818, 822, 825, 828, 831, 834, 837, 840, 843, 846, 849,
    852, 855, 858, 860, 863, 866, 868, 871, 873, 876, 878, 881, 883, 886,
    888, 890, 893, 895, 897, 899, 902, 904, 906, 908, 910, 912, 914, 916,
    919, 921, 923, 924, 926, 928, 930, 932, 934, 936, 938, 940, 941, 943,
    945, 947, 948, 950, 952, 954, 955, 957, 959, 960, 962, 964, 965, 967,
    968, 970, 971, 973, 975, 976, 978, 979, 981, 982, 983, 985, 986, 988,
    989, 991, 992, 993, 995, 996, 998, 999, 1000>>

\* min(math.log1p(total_engagement) / 5.0, 1.0)
Popularity(total_engagement) ==
  IF total_engagement >= Len(Log1pTable) - 1 THEN UNIT
  ELSE Log1pTable[total_engagement + 1]

\* floor(1000 * exp(-h / 16)) for h = 0..111 hours
ExpTable ==
  <<1000, 939, 882, 829, 778, 731, 687, 645, 606, 569, 535, 502, 472, 443,
    416, 391, 367, 345, 324, 304, 286, 269, 252, 237, 223, 209, 196, 184,
    173, 163, 153, 144, 135, 127, 119, 112, 105, 99, 93, 87, 82, 77, 72,
    68, 63, 60, 56, 52, 49, 46, 43, 41, 38, 36, 34, 32, 30, 28, 26, 25,
    23, 22, 20, 19, 18, 17, 16, 15, 14, 13, 12, 11, 11, 10, 9, 9, 8, 8, 7,
    7, 6, 6, 5, 5, 5, 4, 4, 4, 4, 3, 3, 3, 3, 2, 2, 2, 2, 2, 2, 2, 1, 1,
    1, 1, 1, 1, 1, 1, 1, 1, 1, 0>>

\* math.exp raises OverflowError when its argument is over ln(DBL_MAX),
\* 709.78...: that is from this many seconds in the future on
EXP_OVERFLOW_SECONDS == 40883485

RecencyRaises(age_seconds) == 0 - age_seconds >= EXP_OVERFLOW_SECONDS

\* what stands for the score when compute_ranking_score raises
ScoreError == 0 - 1

\* a recency that does not decay
RecencyFlat(age_seconds) == UNIT

\* max(0.0, min(math.exp(-age_seconds / (MAX_AGE_SECONDS / 3)), 1.0)), with
\* the age taken in whole periods of MAX_AGE_SECONDS / 48
Recency(age_seconds) ==
  IF age_seconds <= 0 THEN UNIT
  ELSE IF age_seconds \div (MAX_AGE_SECONDS \div 48) >= Len(ExpTable) THEN 0
  ELSE ExpTable[(age_seconds \div (MAX_AGE_SECONDS \div 48)) + 1]

TotalEngagement(full_post) ==
  full_post.likeCount + (full_post.replyCount * 2)
  + (full_post.repostCount * 3) + (full_post.quoteCount * 2)

\* the three weights after normalisation, as numerators over WeightDenominator
NormalizedWeights(ranking_weights) ==
  IF ranking_weights.relevance + ranking_weights.popularity
     + ranking_weights.recency > 0
  THEN ranking_weights
  ELSE [relevance |-> 1, popularity |-> 1, recency |-> 1]

\* weights that are used as they are given, as thousandths
WeightDenominatorFixed(ranking_weights) == UNIT

WeightDenominator(ranking_weights) ==
  NormalizedWeights(ranking_weights).relevance
  + NormalizedWeights(ranking_weights).popularity
  + NormalizedWeights(ranking_weights).recency

\* the composite score times WeightDenominator(ranking_weights), which is
\* the same for every post of one build
compute_ranking_score(full_post, post_time, now_, ranking_weights, topic_preferences, profile_preferences) ==
  LET w == NormalizedWeights(ranking_weights)
  IN  IF RecencyRaises(now_ - post_time) THEN ScoreError
      ELSE compute_relevance_score(full_post, topic_preferences,
                                   profile_preferences) * w.relevance
           + Popularity(TotalEngagement(full_post)) * w.popularity
           + Recency(now_ - post_time) * w.recency

\* the author ids author_counts can hold
AllDids == {World[u].did : u \in Uris}

\* an age test that lets a post of any age in
TooOldNever(post_time, now_) == FALSE

\* the age test of the admission loop
TooOld(post_time, now_) == now_ - post_time > MAX_AGE_SECONDS

\* a cap that lets one more entry of an author in
AuthorFullAfter(author_counts, did) ==
  did # <<>> /\ author_counts[did] > MAX_PER_AUTHOR

\* the per-author cap of the admission loop; a post without an author did
\* is not counted
AuthorFull(author_counts, did) ==
  did # <<>> /\ author_counts[did] >= MAX_PER_AUTHOR

\* author_counts = defaultdict(int)
ZeroCounts(full_posts) ==
  [d \in AllDids \cup {full_posts[i].did : i \in 1..Len(full_posts)} |-> 0]

\* one pass of the admission loop of build_feed, for the candidate at
\* position i; state holds filtered_posts and author_counts
AdmitOne(i, collected, full_posts, feed, now_, state) ==
  LET full_post == full_posts[i]
      post_time == full_post.createdAt
  IN  IF should_block_post(full_post, BlockedDids(feed),
                           BannedKeywords(feed)) THEN state
      ELSE IF post_time = NoTime THEN state
      ELSE IF TooOld(post_time, now_) THEN state
      ELSE IF AuthorFull(state.author_counts, full_post.did) THEN state
      ELSE [filtered_posts |->
              Append(state.filtered_posts,
                [uri |-> collected[i], timestamp |-> post_time,
                 rank_score |->
                   compute_ranking_score(full_post, post_time, now_,
                     get_ranking_weights(feed),
                     TopicPreferences(feed.sources),
                     ProfilePreferences(feed.sources))]),
            author_counts |->
              IF full_post.did # <<>>
              THEN [state.author_counts EXCEPT ![full_post.did] = @ + 1]
              ELSE state.author_counts]

\* the passes for the candidates at positions lo..hi in turn, the first
\* half of them and then the rest; no pass is made once FEED_LIMIT entries
\* are admitted (the break)
RECURSIVE AdmitRange(_, _, _, _, _, _, _)
AdmitRange(lo, hi, collected, full_posts, feed, now_, state) ==
  IF lo > hi \/ Len(state.filtered_posts) >= FEED_LIMIT THEN state
  ELSE IF lo = hi
  THEN AdmitOne(lo, collected, full_posts, feed, now_, state)
  ELSE AdmitRange((lo + hi) \div 2 + 1, hi, collected, full_posts, feed,
                  now_,
                  AdmitRange(lo, (lo + hi) \div 2, collected, full_posts,
                             feed, now_, state))

\* the admission loop of build_feed over zip(collected, full_posts), from
\* position i on, with the entries admitted and the author counts so far
AdmitFrom(i, collected, full_posts, feed, now_, filtered_posts, author_counts) ==
  AdmitRange(i, Len(collected), collected, full_posts, feed, now_,
             [filtered_posts |-> filtered_posts,
              author_counts |-> author_counts]).filtered_posts

\* an order that puts the older of two posts with one score first
RanksBeforeOlderFirst(a, b) ==
  \/ a.rank_score > b.rank_score
  \/ a.rank_score = b.rank_score /\ a.timestamp < b.timestamp

\* key order of sort(key=(rank_score, timestamp), reverse=True)
RanksBefore(a, b) ==
  \/ a.rank_score > b.rank_score
  \/ a.rank_score = b.rank_score /\ a.timestamp > b.timestamp

\* list.sort is stable, also with reverse=True: an entry comes after those
\* whose key ranks before its own and after the earlier ones of its own key
SortRanked(posts) ==
  LET n == Len(posts)
      Precedes(j, i) ==
        \/ RanksBefore(posts[j], posts[i])
        \/ ~RanksBefore(posts[i], posts[j]) /\ j < i
      place == [i \in 1..n |->
                  1 + Cardinality({j \in 1..n : Precedes(j, i)})]
  IN  [k \in 1..n |-> posts[CHOOSE i \in 1..n : place[i] = k]]

\* the creation time of the newest admitted post
NewestTimestamp(filtered_posts) ==
  IF filtered_posts = <<>> THEN NoTime
  ELSE CHOOSE t \in {filtered_posts[i].timestamp : i \in 1..Len(filtered_posts)} :
         \A i \in 1..Len(filtered_posts) : t >= filtered_posts[i].timestamp

\* int(min(p["timestamp"] for p in filtered_posts)), None for no posts
OldestTimestamp(filtered_posts) ==
  IF filtered_posts = <<>> THEN NoTime
  ELSE CHOOSE t \in {filtered_posts[i].timestamp : i \in 1..Len(filtered_posts)} :
         \A i \in 1..Len(filtered_posts) : t <= filtered_posts[i].timestamp

\* filtered_posts of build_feed after the admission loop and the sort
FilteredPosts(collected, full_posts, built_from, now_) ==
  SortRanked(AdmitFrom(1, collected, full_posts, built_from, now_, <<>>,
                       ZeroCounts(full_posts)))

\* compute_ranking_score raises for an entry the admission loop reaches
AdmissionRaises(collected, full_posts, built_from, now_) ==
  \E entry \in
     {AdmitFrom(1, collected, full_posts, built_from, now_, <<>>,
                ZeroCounts(full_posts))[i] :
        i \in 1..Len(AdmitFrom(1, collected, full_posts, built_from, now_,
                               <<>>, ZeroCounts(full_posts)))} :
     entry.rank_score = ScoreError

\* the stored cache object; NoSnapshot is None.  built_from is not a field of
\* the cache object: it records, for the properties, the fingerprint of the
\* rows the feed items were made from
NoSnapshot ==
  [present |-> FALSE, feed |-> <<>>, timestamp |-> 0,
   oldest_timestamp |-> NoTime,
   blueprint_hash |-> [sources |-> <<>>,
                       ranking_weights |-> DefaultRankingWeights],
   built_from |-> [sources |-> <<>>,
                   ranking_weights |-> DefaultRankingWeights]]

\* the cache object build_feed posts: candidates `collected` were gathered
\* under the rows `built_from`, `feed_now` is the feed as the database holds
\* it when the admission loop and compute_blueprint_hash run
BuildData(collected, full_posts, built_from, feed_now, now_) ==
  LET filtered_posts ==
        FilteredPosts(collected, full_posts, built_from, now_)
  IN  [present |-> TRUE,
       feed |-> [i \in 1..Len(Take(filtered_posts, FEED_LIMIT)) |->
                   filtered_posts[i].uri],
       timestamp |-> now_,
       oldest_timestamp |-> OldestTimestamp(filtered_posts),
       blueprint_hash |-> compute_blueprint_hash(feed_now),
       built_from |-> compute_blueprint_hash(built_from)]

\* ------------------------------------------------------------------------
\* The read path: cursor, classification of the cache, page
\* ------------------------------------------------------------------------
\* a cursor of the request: None, or a string
NoCursor == [is_none |-> TRUE, str |-> <<>>]

Cursor(str) == [is_none |-> FALSE, str |-> str]

Digits == <<"0", "1", "2", "3", "4", "5", "6", "7", "8", "9">>

IsDigit(c) == \E d \in 1..10 : Digits[d] = c

DigitValue(c) == (CHOOSE d \in 1..10 : Digits[d] = c) - 1

RECURSIVE DecimalValue(_)
DecimalValue(str) ==
  IF str = <<>> THEN 0
  ELSE 10 * DecimalValue(SubSeq(str, 1, Len(str) - 1))
       + DigitValue(str[Len(str)])

\* str.strip() of the blanks int() ignores
RECURSIVE Strip(_)
Strip(str) ==
  IF str = <<>> THEN <<>>
  ELSE IF Head(str) = " " THEN Strip(Tail(str))
  ELSE IF str[Len(str)] = " " THEN Strip(SubSeq(str, 1, Len(str) - 1))
  ELSE str

\* the digits of an int() literal after its sign: single underscores may
\* stand between two digits
IsDigitGroup(body) ==
  /\ body # <<>>
  /\ IsDigit(body[1]) /\ IsDigit(body[Len(body)])
  /\ \A i \in 1..Len(body) :
       \/ IsDigit(body[i])
       \/ body[i] = "_" /\ body[i - 1] # "_"

\* int(cursor) accepts blanks around an optional sign and decimal digits
IsIntLiteral(str) ==
  LET lit == Strip(str)
      body == IF lit # <<>> /\ Head(lit) \in {"+", "-"} THEN Tail(lit)
              ELSE lit
  IN  IsDigitGroup(body)

\* the value int() gives a literal
IntValue(str) ==
  LET lit == SelectSeq(Strip(str), LAMBDA c : c # "_")
  IN  IF Head(lit) = "-" THEN 0 - DecimalValue(Tail(lit))
      ELSE IF Head(lit) = "+" THEN DecimalValue(Tail(lit))
      ELSE DecimalValue(lit)

\* a reading of the cursor that keeps the digits of a string int() rejects
ParseCursorDigits(cursor) ==
  IF cursor.is_none THEN 0
  ELSE IF IsIntLiteral(cursor.str) THEN IntValue(cursor.str)
  ELSE DecimalValue(SelectSeq(cursor.str, IsDigit))

\* try: start = int(cursor) except (ValueError, TypeError): start = 0
ParseCursor(cursor) ==
  IF cursor.is_none \/ ~IsIntLiteral(cursor.str) THEN 0
  ELSE IntValue(cursor.str)

\* a slice index of Python brought into 0..len
ClampIndex(i, len) ==
  IF i < 0 THEN (IF i + len < 0 THEN 0 ELSE i + len)
  ELSE IF i > len THEN len ELSE i

\* a slice that takes the element at b as well
PySliceInclusive(seq, a, b) ==
  SubSeq(seq, ClampIndex(a, Len(seq)) + 1, ClampIndex(b + 1, Len(seq)))

\* seq[a:b] of Python
PySlice(seq, a, b) ==
  SubSeq(seq, ClampIndex(a, Len(seq)) + 1, ClampIndex(b, Len(seq)))

RECURSIVE DecimalString(_)
DecimalString(n) ==
  IF n < 10 THEN <<Digits[n + 1]>>
  ELSE DecimalString(n \div 10) \o <<Digits[(n % 10) + 1]>>

\* str(n)
Str(n) == IF n < 0 THEN <<"-">> \o DecimalString(0 - n) ELSE DecimalString(n)

\* the response body the handler makes of the feed items
Page(feed_items, start, limit) ==
  [cursor |-> IF start + limit >= Len(feed_items) THEN <<"0">>
              ELSE Str(start + limit),
   feed |-> PySlice(feed_items, start, start + limit)]

\* serve_from_cache: the blueprint test
BlueprintChanged(cached, feed) ==
  cached.blueprint_hash # compute_blueprint_hash(feed)

\* serve_from_cache: the age test on the stored oldest timestamp
HasStalePosts(cached, now_) ==
  now_ - cached.oldest_timestamp > MAX_AGE_SECONDS

\* why serve_from_cache returns None, or "valid" when it returns the feed
Classify(cached, feed, now_) ==
  IF ~cached.present THEN "absent"
  ELSE IF BlueprintChanged(cached, feed) THEN "changed"
  ELSE IF cached.feed = <<>> THEN "empty"
  ELSE IF cached.oldest_timestamp # NoTime /\ HasStalePosts(cached, now_)
       THEN "aged"
  ELSE "valid"

\* handler: time.time() - cached_data.get('timestamp', 0), for a cache
\* object that was fetched
CacheAge(cached_data, now_) ==
  IF cached_data.present THEN now_ - cached_data.timestamp ELSE NoTime

\* the test with >= in place of >
OverTtlAtLeast(cached_data, now_) ==
  cached_data.present /\ CacheAge(cached_data, now_) >= FEED_CACHE_TTL

\* handler: the test that schedules the background rebuild
OverTtl(cached_data, now_) ==
  cached_data.present /\ CacheAge(cached_data, now_) > FEED_CACHE_TTL

\* ------------------------------------------------------------------------
\* State
\* ------------------------------------------------------------------------
VARIABLES
  now,                \* time.time(), whole seconds
  feed,               \* the Feed row of the URI and its FeedSource rows
  store,              \* the cache object the feeds API holds for the URI
  algos,              \* algos[uri]: the handler reads are routed to, which
                      \* is the last one make_handler has made
  build_in_progress,  \* the flag of each handler's closure
  tasks,              \* the live asyncio tasks (a bag): reads and rebuilds
  last,               \* the response this step produced, if it ended a read
  probe               \* the arguments and the result of one call of a
                      \* function that is looked at on its own

vars == <<now, feed, store, algos, build_in_progress, tasks, last, probe>>

MaxHandlers == 1 + 2 * MaxManage

\* a task that has just been created.  cached is what serve_from_cache
\* returned (the feed items), saved what set_cache_to_api returned, built
\* what build_feed returned; first and trigger record how the first
\* serve_from_cache and the call of maybe_build_feed ended
NewTask(kind, pc, h, cursor, limit) ==
  [pc |-> pc, kind |-> kind, h |-> h, cursor |-> cursor, limit |-> limit,
   cached |-> <<>>, first |-> "none", trigger |-> "none",
   built_from |-> Feed0, collected |-> <<>>, data |-> NoSnapshot,
   saved |-> FALSE, built |-> <<>>]

\* no function is looked at on its own
NoProbe == [kind |-> "none"]

NoResponse ==
  [outcome |-> "none", cursor |-> NoCursor, limit |-> 0,
   body |-> Page(<<>>, 0, 0), cached |-> <<>>, first |-> "none",
   trigger |-> "none", saved |-> FALSE, built |-> <<>>, age |-> NoTime,
   spawned |-> FALSE]

\* the requests getFeedSkeleton is called with: no cursor, the default limit
Requests == { [cursor |-> NoCursor, limit |-> ENDPOINT_LIMIT] }

Init ==
  /\ now = Now0
  /\ feed = Feed0
  /\ store = NoSnapshot
  /\ algos = 1
  /\ build_in_progress = [h \in 1..MaxHandlers |-> FALSE]
  /\ tasks = EmptyBag
  /\ last = NoResponse
  /\ probe = NoProbe

\* the pcs at which a task is inside build_feed
BuildPcs == {"fetch", "hydrate", "post", "posted"}

Live == BagToSet(tasks)

\* how many live tasks are among the given ones
CountTasks(among) == BagCardinality([task \in among |-> tasks[task]])

\* one task runs a step that leaves it as `after`
Becomes(task, after) ==
  tasks' = (tasks (-) SetToBag({task})) (+) SetToBag({after})

\* one task ends
Ends(task) == tasks' = tasks (-) SetToBag({task})

\* ------------------------------------------------------------------------
\* Steps shared by the read and the background rebuild
\* ------------------------------------------------------------------------
\* get_cache_from_api: the cache object the feeds API holds when the task
\* resumes, None when it holds none.  The feeds API answers every GET
get_cache_from_api == store

\* a guard that lets every trigger through, as if build_in_progress were
\* never read
GuardOpen(h) == FALSE

\* maybe_build_feed, the guard: a trigger that finds the flag set returns None
GuardClosed(h) == build_in_progress[h]

\* the task after build_feed has run up to its first suspension: with no
\* fetch to wait for, gather returns at once and the cache object is posted
StartBuild(task) ==
  LET fetches == FetchTasks(feed.sources, {})
  IN  IF fetches = <<>>
      THEN [task EXCEPT !.pc = "post", !.trigger = "started",
                        !.data = BuildData(<<>>, <<>>, feed, feed, now)]
      ELSE [task EXCEPT !.pc = "fetch", !.trigger = "started",
                        !.built_from = feed]

\* the response of a read that ends, with what the handler held when it
\* ended: age is time.time() - cached_data.get('timestamp') of the TTL test,
\* spawned whether it created the rebuild task
Response(task, outcome, age, spawned) ==
  [outcome |-> outcome, cursor |-> task.cursor, limit |-> task.limit,
   body |-> IF outcome = "returned"
            THEN Page(task.cached, ParseCursor(task.cursor), task.limit)
            ELSE Page(<<>>, 0, 0),
   cached |-> task.cached, first |-> task.first, trigger |-> task.trigger,
   saved |-> task.saved, built |-> task.built, age |-> age,
   spawned |-> spawned]

\* an exception that leaves build_feed with no finally behind it: the flag
\* stays set
BuildRaisesFlagKept(task) ==
  /\ Ends(task)
  /\ last' = IF task.kind = "read"
             THEN Response([task EXCEPT !.trigger = "raised"],
                           "raised", NoTime, FALSE)
             ELSE NoResponse
  /\ UNCHANGED <<now, probe, feed, store, algos, build_in_progress>>

\* an exception that leaves build_feed and takes the stored cache object
\* with it
BuildRaisesStoreCleared(task) ==
  /\ build_in_progress' = [build_in_progress EXCEPT ![task.h] = FALSE]
  /\ store' = NoSnapshot
  /\ Ends(task)
  /\ last' = IF task.kind = "read"
             THEN Response([task EXCEPT !.trigger = "raised"],
                           "raised", NoTime, FALSE)
             ELSE NoResponse
  /\ UNCHANGED <<now, probe, feed, algos>>

\* an exception leaves build_feed: the finally of maybe_build_feed clears the
\* flag, and the exception ends the read, or the background task
BuildRaises(task) ==
  /\ build_in_progress' = [build_in_progress EXCEPT ![task.h] = FALSE]
  /\ Ends(task)
  /\ last' = IF task.kind = "read"
             THEN Response([task EXCEPT !.trigger = "raised"],
                           "raised", NoTime, FALSE)
             ELSE NoResponse
  /\ UNCHANGED <<now, probe, feed, store, algos>>

\* ------------------------------------------------------------------------
\* Actions
\* ------------------------------------------------------------------------
\* the clock advances taken to reach a time
TicksTaken(t) ==
  IF t = Now0 THEN 0 ELSE t - Now0 - FEED_CACHE_TTL + 1

\* time passes: the clock is looked at when the TTL has passed since the
\* process started, and every second from then on
Tick ==
  /\ TicksTaken(now) < MaxTicks
  /\ now' = now + (IF now = Now0 THEN FEED_CACHE_TTL ELSE 1)
  /\ last' = NoResponse
  /\ UNCHANGED <<feed, store, algos, build_in_progress, tasks, probe>>

\* get_feed_skeleton: the handler parses the cursor and serve_from_cache
\* sends its GET; at most `cap` tasks are live at once
Accept(req, cap) ==
  /\ BagCardinality(tasks) < cap
  /\ tasks' = tasks (+) SetToBag({NewTask("read", "sfc1", algos, req.cursor,
                                           req.limit)})
  /\ last' = NoResponse
  /\ UNCHANGED <<now, probe, feed, store, algos, build_in_progress>>

GetFeedSkeleton(req) == Accept(req, MaxTasks)

\* a read that arrives in a process that serves the feed as registered
GetFeedSkeletonBurst(req) == Accept(req, MaxBurst)

\* handler: the first serve_from_cache returns.  A valid cache is kept and
\* fetched again for the TTL test; otherwise maybe_build_feed(force=True)
FirstCheck(task) ==
  /\ task.pc = "sfc1"
  /\ LET cached == get_cache_from_api
         class == Classify(cached, feed, now)
         seen == [task EXCEPT !.first = class]
     IN  IF class = "valid"
         THEN /\ Becomes(task, [seen EXCEPT !.pc = "ttl",
                                            !.cached = cached.feed])
              /\ UNCHANGED build_in_progress
         ELSE IF GuardClosed(task.h)
         THEN /\ Becomes(task, [seen EXCEPT !.pc = "sfc2",
                                            !.trigger = "coalesced"])
              /\ UNCHANGED build_in_progress
         ELSE /\ Becomes(task, StartBuild(seen))
              /\ build_in_progress' =
                   [build_in_progress EXCEPT ![task.h] = TRUE]
  /\ last' = NoResponse
  /\ UNCHANGED <<now, probe, feed, store, algos>>

\* how each of the n calls of a gather ends
GatherOutcomes(n) == [1..n -> CallOutcomes]

\* the fetches build_feed has gathered for the sources it read
FetchCount(task) == Len(FetchTasks(task.built_from.sources, {}))

\* build_feed: the gather of the source fetches returns, or raises.  The
\* candidates are flattened, deduplicated and sampled; with none to hydrate
\* the second gather returns at once and the cache object is posted
FetchDone(task, outcomes) ==
  /\ task.pc = "fetch"
  /\ LET fetches == FetchTasks(task.built_from.sources, {})
         jwt == task.built_from.access_jwt
     IN  /\ outcomes \in [1..Len(fetches) -> CallOutcomes]
         /\ IF \E i \in 1..Len(fetches) :
                  FetchRaises(fetches[i], jwt, outcomes[i])
            THEN BuildRaises(task)
            ELSE /\ \E collected \in
                       Sampled(Collected(fetches, jwt, FEED_LIMIT, outcomes)) :
                      Becomes(task,
                        IF collected = <<>>
                        THEN [task EXCEPT !.pc = "post", !.built_from = Feed0,
                               !.data = BuildData(<<>>, <<>>, task.built_from,
                                                  feed, now)]
                        ELSE [task EXCEPT !.pc = "hydrate",
                                          !.collected = collected])
                 /\ last' = NoResponse
                 /\ UNCHANGED <<now, probe, feed, store, algos,
                                build_in_progress>>

\* build_feed: the gather of the hydrations returns, or raises (fetch_full_post
\* catches nothing).  The admission loop (which raises when a score does),
\* the sort and compute_blueprint_hash run, and set_cache_to_api sends its
\* POST
HydrateDone(task, outcomes) ==
  /\ task.pc = "hydrate"
  /\ outcomes \in [1..Len(task.collected) -> CallOutcomes]
  /\ IF \/ \E i \in 1..Len(task.collected) : outcomes[i] = "raise"
        \/ AdmissionRaises(task.collected,
             [i \in 1..Len(task.collected) |->
                fetch_full_post(task.collected[i], outcomes[i])],
             task.built_from, now)
     THEN BuildRaises(task)
     ELSE /\ Becomes(task,
               [task EXCEPT !.pc = "post", !.collected = <<>>,
                 !.built_from = Feed0,
                 !.data = BuildData(task.collected,
                   [i \in 1..Len(task.collected) |->
                      fetch_full_post(task.collected[i], outcomes[i])],
                   task.built_from, feed, now)])
          /\ last' = NoResponse
          /\ UNCHANGED <<now, probe, feed, store, algos, build_in_progress>>

\* a write that puts the feed items into the stored object and leaves its
\* other fields as they are
ServePostInPlace(task, ok) ==
  /\ task.pc = "post"
  /\ store' = IF ok THEN [store EXCEPT !.present = TRUE,
                                       !.feed = task.data.feed]
              ELSE store
  /\ Becomes(task, [task EXCEPT !.pc = "posted", !.saved = ok,
                                !.built = task.data.feed,
                                !.data = NoSnapshot])
  /\ last' = NoResponse
  /\ UNCHANGED <<now, probe, feed, algos, build_in_progress>>

\* the feeds API serves the POST of set_cache_to_api: it replaces the cache
\* object, or fails; what is left to build_feed is to return its feed
ServePost(task, ok) ==
  /\ task.pc = "post"
  /\ store' = IF ok THEN task.data ELSE store
  /\ Becomes(task, [task EXCEPT !.pc = "posted", !.saved = ok,
                                !.built = task.data.feed,
                                !.data = NoSnapshot])
  /\ last' = NoResponse
  /\ UNCHANGED <<now, probe, feed, algos, build_in_progress>>

\* set_cache_to_api returns (its result is dropped), build_feed returns its
\* feed, the finally of maybe_build_feed clears the flag.  The handler drops
\* the feed it is handed and calls serve_from_cache again; a background task
\* ends
BuildReturns(task) ==
  /\ task.pc = "posted"
  /\ build_in_progress' = [build_in_progress EXCEPT ![task.h] = FALSE]
  /\ IF task.kind = "read"
     THEN Becomes(task, [task EXCEPT !.pc = "sfc2", !.trigger = "built"])
     ELSE Ends(task)
  /\ last' = NoResponse
  /\ UNCHANGED <<now, probe, feed, store, algos>>

\* handler: the second serve_from_cache returns; cached.get on None raises
\* AttributeError, otherwise the page is sliced and returned
SecondCheck(task) ==
  /\ task.pc = "sfc2"
  /\ LET cached == get_cache_from_api
         class == Classify(cached, feed, now)
     IN  last' = IF class = "valid"
                 THEN Response([task EXCEPT !.cached = cached.feed],
                               "returned", NoTime, FALSE)
                 ELSE Response(task, "raised", NoTime, FALSE)
  /\ Ends(task)
  /\ UNCHANGED <<now, probe, feed, store, algos, build_in_progress>>

\* a handler that awaits maybe_build_feed() where the code creates a task
\* for it: the read runs the rebuild and serves what it finds afterwards
TtlCheckAwaits(task) ==
  /\ task.pc = "ttl"
  /\ LET cached_data == get_cache_from_api
         spawn == OverTtl(cached_data, now)
     IN  IF ~spawn
         THEN /\ last' = Response(task, "returned",
                                  CacheAge(cached_data, now), FALSE)
              /\ Ends(task)
              /\ UNCHANGED build_in_progress
         ELSE /\ last' = NoResponse
              /\ IF GuardClosed(task.h)
                 THEN /\ Becomes(task, [task EXCEPT !.pc = "sfc2",
                                                    !.trigger = "coalesced"])
                      /\ UNCHANGED build_in_progress
                 ELSE /\ Becomes(task, StartBuild(task))
                      /\ build_in_progress' =
                           [build_in_progress EXCEPT ![task.h] = TRUE]
  /\ UNCHANGED <<now, probe, feed, store, algos>>

\* handler: the cache object fetched for the TTL test arrives; a rebuild task
\* is created when it is over the TTL, and the page of the cache found first
\* is returned
TtlCheck(task) ==
  /\ task.pc = "ttl"
  /\ LET cached_data == get_cache_from_api
         spawn == OverTtl(cached_data, now)
     IN  /\ last' = Response(task, "returned", CacheAge(cached_data, now),
                             spawn)
         /\ IF spawn
            THEN Becomes(task, NewTask("rebuild", "mb", task.h, NoCursor, 0))
            ELSE Ends(task)
  /\ UNCHANGED <<now, probe, feed, store, algos, build_in_progress>>

\* a rebuild task that ends without calling build_feed
RebuildStartDrops(task) ==
  /\ task.pc = "mb"
  /\ Ends(task)
  /\ last' = NoResponse
  /\ UNCHANGED <<now, probe, feed, store, algos, build_in_progress>>

\* the task of asyncio.create_task(maybe_build_feed()) runs
RebuildStart(task) ==
  /\ task.pc = "mb"
  /\ IF GuardClosed(task.h)
     THEN /\ Ends(task)
          /\ UNCHANGED build_in_progress
     ELSE /\ Becomes(task, StartBuild(task))
          /\ build_in_progress' =
               [build_in_progress EXCEPT ![task.h] = TRUE]
  /\ last' = NoResponse
  /\ UNCHANGED <<now, probe, feed, store, algos>>

\* POST /manage-feed: create_feed rewrites the rows, makes a handler and
\* starts the warming read on it; create_feed_endpoint then installs another
\* handler.  When create_feed raises, the rows written so far stay
ManageFeed(bp) ==
  /\ algos + 2 <= MaxHandlers
  /\ feed' = FeedAfterCreate(feed, bp)
  /\ IF CreateFeedRaises(bp)
     THEN UNCHANGED <<algos, tasks>>
     ELSE /\ BagCardinality(tasks) < MaxTasks
          /\ tasks' = tasks (+) SetToBag({NewTask("read", "sfc1", algos + 1,
                                                  NoCursor, RESPONSE_LIMIT)})
          /\ algos' = algos + 2
  /\ last' = NoResponse
  /\ UNCHANGED <<now, probe, store, build_in_progress>>

Next ==
  \/ Tick
  \/ \E req \in Requests : GetFeedSkeleton(req)
  \/ \E task \in Live : FirstCheck(task)
  \/ \E task \in Live : \E o \in GatherOutcomes(FetchCount(task)) :
       FetchDone(task, o)
  \/ \E task \in Live : \E o \in GatherOutcomes(Len(task.collected)) :
       HydrateDone(task, o)
  \/ \E task \in Live, ok \in BOOLEAN : ServePost(task, ok)
  \/ \E task \in Live : BuildReturns(task)
  \/ \E task \in Live : SecondCheck(task)
  \/ \E task \in Live : TtlCheck(task)
  \/ \E task \in Live : RebuildStart(task)
  \/ \E bp \in Blueprints : ManageFeed(bp)

Spec == Init /\ [][Next]_vars

\* ------------------------------------------------------------------------
\* A process that only serves reads
\* ------------------------------------------------------------------------
\* the cache object a build of an earlier run of the process stored at time
\* t, every call of it having succeeded
EarlierBuild(t) ==
  LET fetches == FetchTasks(Feed0.sources, {})
      collected ==
        CHOOSE c \in Sampled(Collected(fetches, Feed0.access_jwt, FEED_LIMIT,
                                       [i \in 1..Len(fetches) |-> "ok"])) :
          TRUE
  IN  BuildData(collected,
                [i \in 1..Len(collected) |->
                   fetch_full_post(collected[i], "ok")],
                Feed0, Feed0, t)

\* how old the stored cache object is when the process starts: at the TTL,
\* and one second over it
StartAges == {FEED_CACHE_TTL, FEED_CACHE_TTL + 1}

\* the process starts over the cache object of an earlier run
InitBurst ==
  /\ now = Now0
  /\ feed = Feed0
  /\ \E age \in StartAges : store = EarlierBuild(Now0 - age)
  /\ algos = 1
  /\ build_in_progress = [h \in 1..MaxHandlers |-> FALSE]
  /\ tasks = EmptyBag
  /\ last = NoResponse
  /\ probe = NoProbe

\* the clock does not move and /manage-feed is not called: every read and
\* rebuild runs on the handler made at startup, and more are live at once
NextBurst ==
  \/ \E req \in Requests : GetFeedSkeletonBurst(req)
  \/ \E task \in Live : FirstCheck(task)
  \/ \E task \in Live : \E o \in GatherOutcomes(FetchCount(task)) :
       FetchDone(task, o)
  \/ \E task \in Live : \E o \in GatherOutcomes(Len(task.collected)) :
       HydrateDone(task, o)
  \/ \E task \in Live, ok \in BOOLEAN : ServePost(task, ok)
  \/ \E task \in Live : BuildReturns(task)
  \/ \E task \in Live : SecondCheck(task)
  \/ \E task \in Live : TtlCheck(task)
  \/ \E task \in Live : RebuildStart(task)

SpecBurst == InitBurst /\ [][NextBurst]_vars

\* ------------------------------------------------------------------------
\* A process that starts without a snapshot, or over a stale one
\* ------------------------------------------------------------------------
\* the process starts with no cache object stored, or with one of an
\* earlier run that is over the TTL
InitGuard ==
  /\ now = Now0
  /\ feed = Feed0
  /\ store \in {NoSnapshot, EarlierBuild(Now0 - (FEED_CACHE_TTL + 1))}
  /\ algos = 1
  /\ build_in_progress = [h \in 1..MaxHandlers |-> FALSE]
  /\ tasks = EmptyBag
  /\ last = NoResponse
  /\ probe = NoProbe

SpecGuard == InitGuard /\ [][NextBurst]_vars

\* ------------------------------------------------------------------------
\* A process whose calls all succeed
\* ------------------------------------------------------------------------
\* every outbound call of a gather answers 200
AllOk(n) == [i \in 1..n |-> "ok"]

\* the steps of the builds: every source fetch and every hydration
\* succeeds, and so does the POST of the cache object
BuildSucceeds ==
  \/ \E task \in Live : FetchDone(task, AllOk(FetchCount(task)))
  \/ \E task \in Live : HydrateDone(task, AllOk(Len(task.collected)))
  \/ \E task \in Live : ServePost(task, TRUE)
  \/ \E task \in Live : BuildReturns(task)

\* reads over the cache object of an earlier run; the configuration does
\* not change and the clock does not move
NextRefresh ==
  \/ \E req \in Requests : GetFeedSkeletonBurst(req)
  \/ \E task \in Live : FirstCheck(task)
  \/ \E task \in Live : TtlCheck(task)
  \/ \E task \in Live : RebuildStart(task)
  \/ BuildSucceeds

\* the event loop runs every task that is ready, and every request ends:
\* a rebuild task that was created runs, and a build that waits for an
\* answer gets it
SpecRefresh ==
  /\ InitBurst
  /\ [][NextRefresh]_vars
  /\ WF_vars(\E task \in Live : RebuildStart(task))
  /\ WF_vars(BuildSucceeds)

\* ------------------------------------------------------------------------
\* A process that pages through a fresh snapshot
\* ------------------------------------------------------------------------
\* the uri of the post at a rank of that snapshot
PostUri(rank) == <<"at://post/">> \o Str(rank)

\* the cache object of a build that has just stored n feed items, none of
\* them near MAX_AGE_SECONDS
FreshSnapshot(n) ==
  [present |-> TRUE, feed |-> [rank \in 1..n |-> PostUri(rank)],
   timestamp |-> Now0, oldest_timestamp |-> Now0,
   blueprint_hash |-> compute_blueprint_hash(Feed0),
   built_from |-> compute_blueprint_hash(Feed0)]

\* the cursor strings getFeedSkeleton is called with: offsets inside, at
\* the end of and past the snapshot, and strings int() takes or rejects
PageCursors ==
  {NoCursor} \cup
  {Cursor(str) : str \in
     {<<"0">>, <<"1">>, <<"9">>, <<"1", "0">>, <<"2", "0">>, <<"2", "4">>,
      <<"2", "5">>, <<"3", "0">>, <<"a", "b", "c">>, <<>>,
      <<"1", ".", "5">>, <<"2", "0", "x">>, <<" ", "7">>, <<"+", "5">>,
      <<"1", "_", "0">>, <<"-", "3">>}}

PageLimits == {1, 10, 20, 30}

PageRequests == [cursor : PageCursors, limit : PageLimits]

InitPage ==
  /\ now = Now0
  /\ feed = Feed0
  /\ \E n \in 1..MaxEntries : store = FreshSnapshot(n)
  /\ algos = 1
  /\ build_in_progress = [h \in 1..MaxHandlers |-> FALSE]
  /\ tasks = EmptyBag
  /\ last = NoResponse
  /\ probe = NoProbe

\* one read at a time: the snapshot is valid and under the TTL, so no build
\* runs
NextPage ==
  \/ \E req \in PageRequests : Accept(req, 1)
  \/ \E task \in Live : FirstCheck(task)
  \/ \E task \in Live : TtlCheck(task)

SpecPage == InitPage /\ [][NextPage]_vars

\* ------------------------------------------------------------------------
\* A caller that pages through the feed
\* ------------------------------------------------------------------------
\* the cache object of a build that has just stored n feed items; a build
\* that admitted nothing stored no oldest timestamp
SessionSnapshot(n) ==
  IF n = 0 THEN [FreshSnapshot(0) EXCEPT !.oldest_timestamp = NoTime]
  ELSE FreshSnapshot(n)

\* the caller starts with cursor "0" and a limit it keeps; probe holds what
\* it has seen: the feed items stored when it started, the cursor to send
\* next, the reads that ended, the pages returned one after the other,
\* whether a read returned cursor "0" (done) or an error (failed), and
\* whether the stored feed items were others at the end of a read
InitSession ==
  /\ now = Now0
  /\ feed = Feed0
  /\ \E n \in 0..MaxEntries : store = SessionSnapshot(n)
  /\ algos = 1
  /\ build_in_progress = [h \in 1..MaxHandlers |-> FALSE]
  /\ tasks = EmptyBag
  /\ last = NoResponse
  /\ \E limit \in PageLimits :
       probe = [kind |-> "session", entries |-> store.feed, limit |-> limit,
                cursor |-> <<"0">>, reads |-> 0, pages |-> <<>>,
                done |-> FALSE, failed |-> FALSE, changed |-> FALSE]

\* the caller sends the cursor it holds, one read at a time
SessionRequest ==
  /\ probe.kind = "session" /\ ~probe.done /\ ~probe.failed
  /\ last.outcome = "none"
  /\ Accept([cursor |-> Cursor(probe.cursor), limit |-> probe.limit], 1)

\* the caller takes the answer of its read
SessionReceive ==
  /\ probe.kind = "session" /\ last.outcome # "none"
  /\ probe' =
       IF last.outcome = "returned"
       THEN [probe EXCEPT !.reads = @ + 1,
                          !.pages = @ \o last.body.feed,
                          !.cursor = last.body.cursor,
                          !.done = last.body.cursor = <<"0">>,
                          !.changed = @ \/ store.feed # probe.entries]
       ELSE [probe EXCEPT !.reads = @ + 1, !.failed = TRUE,
                          !.changed = @ \/ store.feed # probe.entries]
  /\ last' = NoResponse
  /\ UNCHANGED <<now, feed, store, algos, build_in_progress, tasks>>

\* the clock does not move and /manage-feed is not called
NextSession ==
  \/ SessionRequest
  \/ SessionReceive
  \/ \E task \in Live : FirstCheck(task)
  \/ \E task \in Live : \E o \in GatherOutcomes(FetchCount(task)) :
       FetchDone(task, o)
  \/ \E task \in Live : \E o \in GatherOutcomes(Len(task.collected)) :
       HydrateDone(task, o)
  \/ \E task \in Live, ok \in BOOLEAN : ServePost(task, ok)
  \/ \E task \in Live : BuildReturns(task)
  \/ \E task \in Live : SecondCheck(task)
  \/ \E task \in Live : TtlCheck(task)

SpecSession == InitSession /\ [][NextSession]_vars

\* ------------------------------------------------------------------------
\* Functions of build_feed looked at on their own: the process is idle, the
\* probe holds the arguments of one call and, once applied, its result
\* ------------------------------------------------------------------------
Idle ==
  /\ now = Now0
  /\ feed = Feed0
  /\ store = NoSnapshot
  /\ algos = 1
  /\ build_in_progress = [h \in 1..MaxHandlers |-> FALSE]
  /\ tasks = EmptyBag
  /\ last = NoResponse

Still == UNCHANGED <<now, feed, store, algos, build_in_progress, tasks, last>>

\* the sequences of at most n members of a set
SeqsUpTo(S, n) == UNION {[1..k -> S] : k \in 0..n}

\* --- aggregation of the fetch results (build_feed, lines 584-590) ---
\* what the gathered source fetches can return: each a list of post uris,
\* with repeats inside one list and across lists
GatherResults == SeqsUpTo(SeqsUpTo(Uris, MaxPerFetch), MaxFetches)

InitGather ==
  /\ Idle
  /\ \E results \in GatherResults :
       probe = [kind |-> "gather", done |-> FALSE, results |-> results,
                collected |-> <<>>]

ApplyGather ==
  /\ probe.kind = "gather" /\ ~probe.done
  /\ probe' = [probe EXCEPT !.done = TRUE,
                            !.collected = Aggregate(probe.results)]
  /\ Still

SpecGather == InitGather /\ [][ApplyGather]_vars

\* --- admission and sort (build_feed, lines 608-662) ---
\* the time of the build
AdmitNow == 2 * MAX_AGE_SECONDS

\* the answers of app.bsky.feed.getPosts the candidates are hydrated with
PostKinds ==
  {"good", "other", "anon", "blocked", "keyword", "old", "edge", "undated",
   "empty", "future", "farfuture"}

\* the answer of a kind for the candidate at a position: posts of did:a
\* whose creation time and likes vary with the position
ProbePost(kind, position) ==
  LET good == [present |-> TRUE, did |-> <<"did:a">>, text |-> <<"c">>,
               createdAt |-> AdmitNow - 3600 * ((position * 7) % 5),
               likeCount |-> 10 * (position % 3), replyCount |-> 0,
               repostCount |-> 0, quoteCount |-> 0]
  IN  CASE kind = "good" -> good
        [] kind = "other" -> [good EXCEPT !.did = <<"did:b">>]
        [] kind = "anon" -> [good EXCEPT !.did = <<>>]
        [] kind = "blocked" -> [good EXCEPT !.did = <<"did:x">>]
        [] kind = "keyword" -> [good EXCEPT !.text = <<"c", "B", "a", "c">>]
        [] kind = "old" ->
             [good EXCEPT !.createdAt = AdmitNow - MAX_AGE_SECONDS - 1]
        [] kind = "edge" ->
             [good EXCEPT !.createdAt = AdmitNow - MAX_AGE_SECONDS]
        [] kind = "undated" -> [good EXCEPT !.createdAt = NoTime]
        [] kind = "empty" -> EmptyPost
        [] kind = "future" -> [good EXCEPT !.createdAt = AdmitNow + 3600]
        [] kind = "farfuture" ->
             [good EXCEPT !.createdAt = AdmitNow + EXP_OVERFLOW_SECONDS]

\* the kinds of the candidates of one build: up to MaxShort of any kind, or
\* more than MAX_PER_AUTHOR good ones with one of any kind among them
CandidateKinds ==
  SeqsUpTo(PostKinds, MaxShort) \cup
  {[position \in 1..n |-> IF position = at THEN kind ELSE "good"] :
     n \in (MAX_PER_AUTHOR + 1)..(MAX_PER_AUTHOR + MaxOver),
     at \in 1..(MAX_PER_AUTHOR + MaxOver), kind \in PostKinds}

\* fetch_full_post for the candidate at a position whose post is of a kind
fetch_full_post_of(kind, position, outcome) ==
  IF outcome = "ok" THEN ProbePost(kind, position) ELSE EmptyPost

\* feeds with a preferred and a blocked author, a preferred topic and a
\* banned keyword, with the default ranking weights and with weights that
\* leave recency out
AdmitFeeds ==
  {[ranking_weights |-> rw, access_jwt |-> TRUE,
    sources |-> <<Source("profile_preference", <<"did:a">>, 500, 0, <<>>),
                  Source("topic_preference", <<"c">>, 300, 0, <<>>),
                  Source("profile_filter", <<"did:x">>, 0, 0, <<>>),
                  Source("topic_filter", <<"b", "A">>, 0, 0, <<>>)>>] :
     rw \in {<<>>, <<[relevance |-> 500, popularity |-> 500,
                      recency |-> 0]>>}}

InitAdmit ==
  /\ Idle
  /\ \E kinds \in CandidateKinds, blueprint \in AdmitFeeds :
       probe = [kind |-> "admit", done |-> FALSE, feed |-> blueprint,
                now |-> AdmitNow,
                collected |-> [i \in 1..Len(kinds) |-> PostUri(i)],
                full_posts |-> [i \in 1..Len(kinds) |->
                                  ProbePost(kinds[i], i)],
                raised |-> FALSE, filtered_posts |-> <<>>,
                data |-> NoSnapshot]

ApplyAdmit ==
  /\ probe.kind = "admit" /\ ~probe.done
  /\ LET raised == AdmissionRaises(probe.collected, probe.full_posts,
                                   probe.feed, probe.now)
     IN  probe' =
           [probe EXCEPT
              !.done = TRUE, !.raised = raised,
              !.filtered_posts =
                 IF raised THEN <<>>
                 ELSE FilteredPosts(probe.collected, probe.full_posts,
                                    probe.feed, probe.now),
              !.data =
                 IF raised THEN NoSnapshot
                 ELSE BuildData(probe.collected, probe.full_posts,
                                probe.feed, probe.feed, probe.now)]
  /\ Still

SpecAdmit == InitAdmit /\ [][ApplyAdmit]_vars

\* --- the score of one post (compute_ranking_score) ---
\* ranking weights: non-negative, all zero among them
WeightValues == {0, 200, 1000}

ScoreWeights ==
  [relevance : WeightValues, popularity : WeightValues,
   recency : WeightValues]

\* ages of a post: new, an hour, MAX_AGE_SECONDS and ten times that, an
\* hour in the future, and so far in the future that math.exp overflows
ScoreAges ==
  {0, 3600, MAX_AGE_SECONDS, 10 * MAX_AGE_SECONDS, 0 - 3600,
   0 - EXP_OVERFLOW_SECONDS}

ScoreLikes == {0, 50, 1000}

\* topic preferences with weights in [0, 1] that both match the text
ScoreTopics ==
  {<<>>, <<[name |-> <<"c">>, weight |-> 1000],
           [name |-> <<"A">>, weight |-> 700]>>}

InitScore ==
  /\ Idle
  /\ \E rw \in ScoreWeights, age \in ScoreAges, likes \in ScoreLikes,
        topics \in ScoreTopics, preferred \in SUBSET {<<"did:a">>} :
       probe = [kind |-> "score", done |-> FALSE,
                full_post |-> [present |-> TRUE, did |-> <<"did:a">>,
                               text |-> <<"a", "c">>,
                               createdAt |-> AdmitNow - age,
                               likeCount |-> likes, replyCount |-> 1,
                               repostCount |-> 0, quoteCount |-> 0],
                now |-> AdmitNow, ranking_weights |-> rw,
                topic_preferences |-> topics,
                profile_preferences |-> preferred,
                score |-> 0, weights |-> rw, denominator |-> 0]

\* score is the composite score times denominator, weights are the weights
\* used times denominator
ApplyScore ==
  /\ probe.kind = "score" /\ ~probe.done
  /\ probe' =
       [probe EXCEPT
          !.done = TRUE,
          !.weights = NormalizedWeights(probe.ranking_weights),
          !.denominator = WeightDenominator(probe.ranking_weights),
          !.score = compute_ranking_score(probe.full_post,
                      probe.full_post.createdAt, probe.now,
                      probe.ranking_weights, probe.topic_preferences,
                      probe.profile_preferences)]
  /\ Still

SpecScore == InitScore /\ [][ApplyScore]_vars

\* --- the relevance of one post (compute_relevance_score) ---
\* post texts: none, and texts in mixed case
RelevanceTexts == {<<>>, <<"a", "C">>, <<"B">>, <<"c", "A", "b">>}

\* topic names in mixed case, with weights in [0, 1]
RelevanceNames == {<<"A">>, <<"c">>, <<"a", "B">>, <<"d">>}

RelevanceWeights == {0, 300, 700, 1000}

\* the topic preferences of a feed: up to MaxTopics rows, no name twice
\* (FeedSource is unique on feed, source_type and identifier)
RelevanceTopics ==
  {topics \in SeqsUpTo([name : RelevanceNames, weight : RelevanceWeights],
                       MaxTopics) :
     \A i, j \in 1..Len(topics) : topics[i].name = topics[j].name => i = j}

InitRelevance ==
  /\ Idle
  /\ \E did \in {<<"did:a">>, <<"did:b">>, <<>>}, text \in RelevanceTexts,
        topics \in RelevanceTopics, preferred \in SUBSET {<<"did:a">>} :
       probe = [kind |-> "relevance", done |-> FALSE,
                full_post |-> [present |-> TRUE, did |-> did, text |-> text,
                               createdAt |-> AdmitNow, likeCount |-> 0,
                               replyCount |-> 0, repostCount |-> 0,
                               quoteCount |-> 0],
                topic_preferences |-> topics,
                profile_preferences |-> preferred, relevance |-> 0]

ApplyRelevance ==
  /\ probe.kind = "relevance" /\ ~probe.done
  /\ probe' =
       [probe EXCEPT
          !.done = TRUE,
          !.relevance = compute_relevance_score(probe.full_post,
                          probe.topic_preferences,
                          probe.profile_preferences)]
  /\ Still

SpecRelevance == InitRelevance /\ [][ApplyRelevance]_vars

\* --- the scores of two posts of one build (compute_ranking_score) ---
\* the weights of ScoreWeights and the default ones
CompareWeights == ScoreWeights \cup {DefaultRankingWeights}

\* ages in whole hours up to MAX_AGE_SECONDS, and posts dated one and two
\* hours after the time of the build
CompareAges ==
  {0 - 7200, 0 - 3600, 0, 3600, 40 * 3600, MAX_AGE_SECONDS}

\* no topic preference, and one that matches the text with weight 0.3 or 1.0
CompareTopics ==
  {<<>>, <<[name |-> <<"c">>, weight |-> 300]>>,
         <<[name |-> <<"c">>, weight |-> 1000]>>}

\* a post of the preferred author did:a and an older post of did:b with the
\* same text and the same counters
InitCompare ==
  /\ Idle
  /\ \E rw \in CompareWeights, newer_age \in CompareAges,
        older_age \in CompareAges, likes \in {0, 50},
        topics \in CompareTopics :
       /\ newer_age < older_age
       /\ probe = [kind |-> "compare", done |-> FALSE,
                   newer |-> [present |-> TRUE, did |-> <<"did:a">>,
                              text |-> <<"a", "c">>,
                              createdAt |-> AdmitNow - newer_age,
                              likeCount |-> likes, replyCount |-> 0,
                              repostCount |-> 0, quoteCount |-> 0],
                   older |-> [present |-> TRUE, did |-> <<"did:b">>,
                              text |-> <<"a", "c">>,
                              createdAt |-> AdmitNow - older_age,
                              likeCount |-> likes, replyCount |-> 0,
                              repostCount |-> 0, quoteCount |-> 0],
                   now |-> AdmitNow, ranking_weights |-> rw,
                   topic_preferences |-> topics,
                   profile_preferences |-> {<<"did:a">>},
                   newer_score |-> 0, older_score |-> 0]

\* both scores are the composite score times WeightDenominator
ApplyCompare ==
  /\ probe.kind = "compare" /\ ~probe.done
  /\ probe' =
       [probe EXCEPT
          !.done = TRUE,
          !.newer_score = compute_ranking_score(probe.newer,
                            probe.newer.createdAt, probe.now,
                            probe.ranking_weights, probe.topic_preferences,
                            probe.profile_preferences),
          !.older_score = compute_ranking_score(probe.older,
                            probe.older.createdAt, probe.now,
                            probe.ranking_weights, probe.topic_preferences,
                            probe.profile_preferences)]
  /\ Still

SpecCompare == InitCompare /\ [][ApplyCompare]_vars

\* --- the fetches a build schedules (build_feed, lines 562-583) ---
\* FeedSource rows: topics that are acronyms or not, with and without a
\* context, preferred profiles, and filters
ScheduleRows ==
  {Source("topic_preference", id, 500, acr, ctx) :
     id \in {<<"a">>, <<"b">>}, acr \in {0, 1}, ctx \in {<<>>, <<"c">>}}
  \cup {Source("profile_preference", id, 500, 0, <<>>) :
          id \in {<<"did:a">>, <<"did:b">>}}
  \cup {Source("topic_filter", <<"a">>, 500, 0, <<>>),
        Source("profile_filter", <<"did:a">>, 500, 0, <<>>)}

\* the rows of one feed, in any order: no two of the same type and
\* identifier (FeedSource is unique on feed, source_type and identifier)
ScheduleSources ==
  {sources \in SeqsUpTo(ScheduleRows, MaxSources) :
     \A i, j \in 1..Len(sources) : SameKey(sources[i], sources[j]) => i = j}

InitSchedule ==
  /\ Idle
  /\ \E sources \in ScheduleSources :
       probe = [kind |-> "schedule", done |-> FALSE, sources |-> sources,
                tasks |-> <<>>]

ApplySchedule ==
  /\ probe.kind = "schedule" /\ ~probe.done
  /\ probe' = [probe EXCEPT !.done = TRUE,
                            !.tasks = FetchTasks(probe.sources, {})]
  /\ Still

SpecSchedule == InitSchedule /\ [][ApplySchedule]_vars

\* --- the sampling of the candidates (build_feed, lines 592-597) ---
\* how many deduplicated candidates a build has: few, about
\* target_collected, and up to MaxExcess more
SampleSizes ==
  {0, 1, target_collected - 1}
  \cup target_collected..(target_collected + MaxExcess)

InitSample ==
  /\ Idle
  /\ \E n \in SampleSizes :
       probe = [kind |-> "sample", done |-> FALSE,
                collected |-> [i \in 1..n |-> PostUri(i)],
                sampled |-> <<>>]

ApplySample ==
  /\ probe.kind = "sample" /\ ~probe.done
  /\ \E sampled \in Sampled(probe.collected) :
       probe' = [probe EXCEPT !.done = TRUE, !.sampled = sampled]
  /\ Still

SpecSample == InitSample /\ [][ApplySample]_vars

\* --- the snapshot of one build (build_feed, lines 584-678) ---
\* so many authors that MAX_PER_AUTHOR posts of each exceed FEED_LIMIT
SnapshotAuthors == FEED_LIMIT \div MAX_PER_AUTHOR + 1

\* the answer for the candidate at a position of a build with many
\* candidates: admissible posts of SnapshotAuthors authors in turn
SnapshotPost(position) ==
  [ProbePost("good", position) EXCEPT
     !.did = <<"did:">> \o Str(position % SnapshotAuthors)]

\* the builds followed: the gathered fetch results, what getPosts answers
\* for a uri, and the time.  Few candidates out of World, at a time that
\* leaves p1 young enough and at one that does not; or about FEED_LIMIT
\* admissible candidates, one of them returned by a second fetch as well
SnapshotBuilds ==
  {[results |-> results, posts |-> World, now |-> at] :
     results \in GatherResults, at \in {Now0, Now0 + FEED_CACHE_TTL + 1}}
  \cup
  {[results |-> <<[i \in 1..n |-> PostUri(i)], <<PostUri(again)>>>>,
    posts |-> [uri \in {PostUri(i) : i \in 1..n} |->
                 SnapshotPost(CHOOSE i \in 1..n : PostUri(i) = uri)],
    now |-> AdmitNow] :
     n \in (FEED_LIMIT - 1)..(FEED_LIMIT + MaxOver), again \in 1..MaxOver}

InitSnapshot ==
  /\ Idle
  /\ \E build \in SnapshotBuilds :
       probe = [kind |-> "snapshot", done |-> FALSE,
                results |-> build.results, posts |-> build.posts,
                now |-> build.now, collected |-> <<>>, raised |-> FALSE,
                data |-> NoSnapshot]

\* build_feed from the gathered results on, every getPosts call answered
ApplySnapshot ==
  /\ probe.kind = "snapshot" /\ ~probe.done
  /\ \E collected \in Sampled(Aggregate(probe.results)) :
       LET full_posts == [i \in 1..Len(collected) |->
                            probe.posts[collected[i]]]
           raised == AdmissionRaises(collected, full_posts, feed, probe.now)
       IN  probe' =
             [probe EXCEPT
                !.done = TRUE, !.collected = collected, !.raised = raised,
                !.data = IF raised THEN NoSnapshot
                         ELSE BuildData(collected, full_posts, feed, feed,
                                        probe.now)]
  /\ Still

SpecSnapshot == InitSnapshot /\ [][ApplySnapshot]_vars

\* --- the hash of the blueprint (compute_blueprint_hash) ---
\* the sequences of at most n different members of a set
DistinctSeqs(S, n) ==
  {seq \in SeqsUpTo(S, n) :
     \A i, j \in 1..Len(seq) : seq[i] = seq[j] => i = j}

\* the orders the members of a sequence can be put in
Orders(seq) ==
  {order \in [1..Len(seq) -> 1..Len(seq)] :
     \A i, j \in 1..Len(seq) : order[i] = order[j] => i = j}

\* topic and profile preferences a blueprint can name, each name once
HashTopics ==
  {Topic(<<"a">>, 500, 0, <<>>), Topic(<<"A">>, 300, 0, <<>>),
   Topic(<<"c">>, 300, 0, <<>>)}

HashProfiles == {Profile(<<"did:a">>, 500), Profile(<<"did:b">>, 300)}

\* ranking weights a blueprint can give: none, or the defaults changed
HashWeights ==
  {<<>>, <<[relevance |-> 500, popularity |-> 500, recency |-> 0]>>}

\* no hash taken yet
NoHash == <<>>

\* two feeds registered by create_feed with the same preferences and
\* ranking weights: the second names them in another order, and has some
\* topics marked as acronyms with a context
InitHash ==
  /\ Idle
  /\ \E tp \in DistinctSeqs(HashTopics, MaxHashed),
        pp \in DistinctSeqs(HashProfiles, MaxHashed),
        rw \in HashWeights :
       \E topic_order \in Orders(tp), profile_order \in Orders(pp),
          acronyms \in SUBSET (1..Len(tp)) :
         probe =
           [kind |-> "hash", done |-> {},
            feed |-> FeedAfterCreate(Feed0, Blueprint(tp, pp, <<>>, <<>>, rw)),
            other |-> FeedAfterCreate(Feed0,
               Blueprint([i \in 1..Len(tp) |->
                            IF i \in acronyms
                            THEN [tp[topic_order[i]] EXCEPT
                                    !.is_acronym = 1, !.context = <<"b">>]
                            ELSE tp[topic_order[i]]],
                         [i \in 1..Len(pp) |-> pp[profile_order[i]]],
                         <<>>, <<>>, rw)),
            first |-> NoHash,
            again |-> NoHash,
            second |-> NoHash]

\* compute_blueprint_hash of the first feed
HashFirst ==
  /\ probe.kind = "hash" /\ "first" \notin probe.done
  /\ probe' = [probe EXCEPT !.done = @ \cup {"first"},
                            !.first = compute_blueprint_hash(probe.feed)]
  /\ Still

\* compute_blueprint_hash of the first feed once more, nothing changed
HashAgain ==
  /\ probe.kind = "hash" /\ "first" \in probe.done
  /\ "again" \notin probe.done
  /\ probe' = [probe EXCEPT !.done = @ \cup {"again"},
                            !.again = compute_blueprint_hash(probe.feed)]
  /\ Still

\* compute_blueprint_hash of the second feed
HashSecond ==
  /\ probe.kind = "hash" /\ "second" \notin probe.done
  /\ probe' = [probe EXCEPT !.done = @ \cup {"second"},
                            !.second = compute_blueprint_hash(probe.other)]
  /\ Still

NextHash == HashFirst \/ HashAgain \/ HashSecond

SpecHash == InitHash /\ [][NextHash]_vars

\* --- the hydration calls of one build (build_feed, lines 599-606) ---
\* a semaphore that never makes a caller wait
SemaphoreNeverLocked(value, waiters) == FALSE

\* asyncio.Semaphore.locked(): no permit is left, or a caller is waiting
SemaphoreLocked(value, waiters) == value = 0 \/ waiters # <<>>

\* the build has up to MaxHydrate candidates; gather has made one
\* fetch_with_sem task for each, and none has run yet
InitHydrate ==
  /\ Idle
  /\ \E n \in 0..MaxHydrate :
       probe = [kind |-> "hydrate",
                collected |-> [i \in 1..n |-> PostUri(i)],
                next |-> 1, value |-> SEMAPHORE_VALUE, waiters |-> <<>>,
                woken |-> {}, flight |-> {}, ended |-> {}]

\* the event loop runs the tasks in the order gather made them in, each up
\* to its first suspension: `async with sem` takes a permit and the task
\* goes on to await fetch_full_post, or the task joins the waiters
FetchWithSem ==
  /\ probe.kind = "hydrate"
  /\ probe.next <= Len(probe.collected)
  /\ probe' =
       IF SemaphoreLocked(probe.value, probe.waiters)
       THEN [probe EXCEPT !.next = @ + 1,
                          !.waiters = Append(@, probe.next)]
       ELSE [probe EXCEPT !.next = @ + 1, !.value = @ - 1,
                          !.flight = @ \cup {probe.next}]
  /\ Still

\* the fetch_full_post of candidate i returns or raises: leaving
\* `async with sem` releases the permit, and release() hands it to the
\* first waiter, if there is one, and wakes it
FetchEnds(i) ==
  /\ probe.kind = "hydrate"
  /\ i \in probe.flight
  /\ probe' =
       IF probe.waiters = <<>>
       THEN [probe EXCEPT !.flight = @ \ {i}, !.ended = @ \cup {i},
                          !.value = @ + 1]
       ELSE [probe EXCEPT !.flight = @ \ {i}, !.ended = @ \cup {i},
                          !.waiters = Tail(@),
                          !.woken = @ \cup {Head(probe.waiters)}]
  /\ Still

\* a woken task leaves acquire() and goes on to await fetch_full_post
FetchResumes(i) ==
  /\ probe.kind = "hydrate"
  /\ i \in probe.woken
  /\ probe' = [probe EXCEPT !.woken = @ \ {i}, !.flight = @ \cup {i}]
  /\ Still

NextHydrate ==
  \/ FetchWithSem
  \/ \E i \in 1..MaxHydrate : FetchEnds(i)
  \/ \E i \in 1..MaxHydrate : FetchResumes(i)

\* every request ends (httpx gives up after 60 s) and the event loop runs
\* every task that is ready
SpecHydrate ==
  InitHydrate /\ [][NextHydrate]_vars /\ WF_vars(NextHydrate)

\* --- the answers of the hydration calls (build_feed, lines 606-611) ---
\* a gather that hands the answers over in the order they arrived in
GatherAsCompleted(answers, arrived) ==
  [k \in 1..Len(arrived) |-> answers[arrived[k]]]

\* asyncio.gather: the results are in the order of the awaitables, whatever
\* the order they completed in
GatherInOrder(answers, arrived) == answers

\* the answers the candidates can get: of a preferred author, of another,
\* of a blocked one, and too old
PairKinds == {"good", "other", "blocked", "old"}

PairFeed == CHOOSE blueprint \in AdmitFeeds : blueprint.ranking_weights = <<>>

\* up to MaxPaired candidates, fewer than the semaphore has permits: the
\* calls of all of them are under way
InitPairing ==
  /\ Idle
  /\ \E n \in 1..MaxPaired : \E kinds \in [1..n -> PairKinds] :
       probe = [kind |-> "pairing", done |-> FALSE, raised |-> FALSE,
                feed |-> PairFeed, now |-> AdmitNow,
                collected |-> [i \in 1..n |-> PostUri(i)],
                kinds |-> kinds, flight |-> 1..n,
                outcomes |-> [i \in 1..n |-> "none"],
                answers |-> [i \in 1..n |-> EmptyPost],
                arrived |-> <<>>, full_posts |-> <<>>, admitted |-> <<>>]

\* the fetch_full_post of candidate i returns: the post of its uri, or {}
\* on a non-success status
FullPostArrives(i, outcome) ==
  /\ probe.kind = "pairing" /\ ~probe.done
  /\ i \in probe.flight
  /\ outcome \in {"ok", "fail"}
  /\ probe' =
       [probe EXCEPT
          !.flight = @ \ {i},
          !.outcomes[i] = outcome,
          !.answers[i] = fetch_full_post_of(probe.kinds[i], i, outcome),
          !.arrived = Append(@, i)]
  /\ Still

\* the fetch_full_post of candidate i raises, and gather raises with it
FullPostRaises(i) ==
  /\ probe.kind = "pairing" /\ ~probe.done
  /\ i \in probe.flight
  /\ probe' = [probe EXCEPT !.done = TRUE, !.raised = TRUE,
                            !.flight = @ \ {i}, !.outcomes[i] = "raise"]
  /\ Still

\* gather returns full_posts, and the admission loop goes through
\* zip(collected, full_posts)
GatherReturns ==
  /\ probe.kind = "pairing" /\ ~probe.done
  /\ probe.flight = {}
  /\ LET full_posts == GatherInOrder(probe.answers, probe.arrived)
     IN  probe' =
           [probe EXCEPT
              !.done = TRUE,
              !.full_posts = full_posts,
              !.admitted = AdmitFrom(1, probe.collected, full_posts,
                                     probe.feed, probe.now, <<>>,
                                     ZeroCounts(full_posts))]
  /\ Still

NextPairing ==
  \/ \E i \in 1..MaxPaired, outcome \in CallOutcomes :
       FullPostArrives(i, outcome)
  \/ \E i \in 1..MaxPaired : FullPostRaises(i)
  \/ GatherReturns

SpecPairing == InitPairing /\ [][NextPairing]_vars

\* ------------------------------------------------------------------------
\* Observations the properties are stated with
\* ------------------------------------------------------------------------
Handlers == 1..MaxHandlers

\* the executions of build_feed in progress inside one handler
Builds(h) == CountTasks({task \in Live : task.h = h /\ task.pc \in BuildPcs})

\* the executions of build_feed in progress for the URI, whatever the handler
BuildsOfUri == CountTasks({task \in Live : task.pc \in BuildPcs})

\* this state is the end of a read
ReadEnded == last.outcome # "none"

\* the first serve_from_cache of the read that ended returned None
FoundNone == ReadEnded /\ last.first # "valid"

\* the page of the read that ended, had it been sliced from feed_items
PageOf(feed_items) == Page(feed_items, ParseCursor(last.cursor), last.limit)

\* ------------------------------------------------------------------------
\* C1
\* ------------------------------------------------------------------------
\* C1: within one handler at most one build_feed is in progress at every
\* moment, and a step taken while the handler's build_in_progress is set
\* starts no build_feed in that handler: the trigger returns None in that
\* step, and a task whose trigger returned None this way is never inside
\* build_feed afterwards
C1_SingleFlight ==
  [][\A h \in Handlers :
       /\ Builds(h)' <= 1
       /\ build_in_progress[h] => Builds(h)' <= Builds(h)
       /\ \A task \in Live' :
            task.trigger = "coalesced" => task.pc = "sfc2"]_vars

\* two triggers have returned None while the build of their handler is
\* still running
C1_Witness ==
  \E h \in Handlers :
    /\ Builds(h) = 1
    /\ build_in_progress[h]
    /\ CountTasks({task \in Live :
                     task.h = h /\ task.trigger = "coalesced"}) = 2

\* ------------------------------------------------------------------------
\* C2
\* ------------------------------------------------------------------------
\* C2: for the feed URI at most one build_feed is executing at any time in
\* the whole process, also after /manage-feed has registered the URI again
\* and installed new handlers while a build of an earlier handler runs
C2_OneBuildPerUri == BuildsOfUri <= 1

\* ------------------------------------------------------------------------
\* C3
\* ------------------------------------------------------------------------
\* C3: a read whose serve_from_cache finds that the stored fingerprint
\* differs from the one of the current configuration runs a build: its call
\* of maybe_build_feed does not return None without having run build_feed
C3_ChangedReadBuilds ==
  (ReadEnded /\ last.first = "changed") => last.trigger # "coalesced"

\* ------------------------------------------------------------------------
\* C4
\* ------------------------------------------------------------------------
\* C4: a read that finds a snapshot whose oldest entry lies more than
\* MAX_AGE_SECONDS back returns none of its items and runs a synchronous
\* build
C4_AgedReadBuilds ==
  (ReadEnded /\ last.first = "aged") =>
     /\ last.trigger # "coalesced"
     /\ last.outcome = "returned" => last.trigger = "built"

\* ------------------------------------------------------------------------
\* C5
\* ------------------------------------------------------------------------
\* C5: a read that finds no valid snapshot and whose build admits no entry
\* (and has stored its snapshot) returns the page with items [] and
\* nextCursor "0", and raises no error
C5_EmptyPage ==
  (FoundNone /\ last.trigger = "built" /\ last.saved /\ last.built = <<>>)
    => /\ last.outcome = "returned"
       /\ last.body = [cursor |-> <<"0">>, feed |-> <<>>]

\* ------------------------------------------------------------------------
\* C6
\* ------------------------------------------------------------------------
\* C6: a read that finds no valid snapshot and whose build produces entries
\* but fails to store them (set_cache_to_api returns False) still returns
\* the page sliced from the entries of that build
C6_PersistFailureNotFatal ==
  (FoundNone /\ last.trigger = "built" /\ ~last.saved /\ last.built # <<>>)
    => /\ last.outcome = "returned"
       /\ last.body = PageOf(last.built)

\* ------------------------------------------------------------------------
\* C7
\* ------------------------------------------------------------------------
\* C7: no failure of a single outbound call of a build (non-success status,
\* timeout or connection error) makes build_feed, and so the read that runs
\* it, raise
C7_FetchFailureIsolated == ReadEnded => last.trigger # "raised"

\* ------------------------------------------------------------------------
\* C8
\* ------------------------------------------------------------------------
\* C8: a read that finds the feed Absent or Invalid while another task's
\* build of the feed is in progress ends, as every such read does, by
\* returning a page (after a build has completed), not by raising
C8_ReadAwaitsBuild ==
  (FoundNone /\ last.trigger = "coalesced") => last.outcome = "returned"

\* ------------------------------------------------------------------------
\* C9
\* ------------------------------------------------------------------------
\* the rebuild tasks that have been created and have not run yet
Scheduled ==
  CountTasks({task \in Live : task.kind = "rebuild" /\ task.pc = "mb"})

\* C9: a read whose first serve_from_cache finds a valid snapshot keeps the
\* feed items stored at that moment, whether or not a build is running,
\* and ends by returning the page sliced from them; it has awaited no
\* maybe_build_feed, the step that answers leaves the stored snapshot as it
\* is, and the rebuild it schedules has not begun to run when it answers
C9_StaleServedAtOnce ==
  [][/\ \A task \in Live' :
          (task.pc = "ttl" /\ task \notin Live) => task.cached = store.feed
     /\ (ReadEnded /\ last.first = "valid")' =>
          /\ (last.outcome = "returned")'
          /\ (last.trigger = "none")'
          /\ (last.body = PageOf(last.cached))'
          /\ store' = store
          /\ build_in_progress' = build_in_progress
          /\ last'.spawned => Scheduled' = Scheduled + 1]_vars

\* a read has returned a stale snapshot's page and scheduled a rebuild while
\* the snapshot is still the one it found
C9_Witness ==
  /\ ReadEnded /\ last.first = "valid" /\ last.spawned
  /\ last.outcome = "returned"
  /\ last.cached = store.feed /\ last.body.feed = store.feed
  /\ Scheduled = 1

\* ------------------------------------------------------------------------
\* C10
\* ------------------------------------------------------------------------
\* C10 as stated: a read that finds a valid snapshot schedules a rebuild if
\* the age since build is at least FEED_CACHE_TTL, and none if it is less
C10_RebuildAtTtl ==
  (ReadEnded /\ last.first = "valid") =>
     /\ last.age >= FEED_CACHE_TTL => last.spawned
     /\ last.age < FEED_CACHE_TTL => ~last.spawned

\* C10 as the code has it: a read that finds a valid snapshot schedules a
\* rebuild exactly when the cache object it fetches for the test is more
\* than FEED_CACHE_TTL seconds old; otherwise it creates no task, and in
\* both cases the step leaves the snapshot and the build flags as they are
C10_RebuildOverTtl ==
  [][(ReadEnded /\ last.first = "valid")' =>
       /\ last'.age = CacheAge(store, now)
       /\ last'.spawned <=> last'.age > FEED_CACHE_TTL
       /\ BagCardinality(tasks') =
            BagCardinality(tasks) - (IF last'.spawned THEN 0 ELSE 1)
       /\ store' = store
       /\ build_in_progress' = build_in_progress]_vars

\* a read has found a valid snapshot and fetched it again one second past
\* FEED_CACHE_TTL, and has scheduled the rebuild
C10_Witness ==
  /\ ReadEnded /\ last.first = "valid"
  /\ last.age = FEED_CACHE_TTL + 1
  /\ last.spawned
\* ------------------------------------------------------------------------
\* C11
\* ------------------------------------------------------------------------
\* min of the creation times of the posts of a feed, None for no posts
OldestOf(feed_items) ==
  OldestTimestamp([i \in 1..Len(feed_items) |->
                     [timestamp |-> World[feed_items[i]].createdAt]])

\* the four fields of a cache object fit one build of the feed as it is
\* configured: the oldest timestamp is the one of its feed items, the build
\* time is not in the future, the fingerprint is the one of the rows
WholeSnapshot(cached) ==
  cached.present =>
    /\ cached.oldest_timestamp = OldestOf(cached.feed)
    /\ cached.timestamp <= now
    /\ cached.blueprint_hash = compute_blueprint_hash(feed)

\* the tasks that wait for the answer of a GET of the cache object
Readers == {task \in Live : task.pc \in {"sfc1", "sfc2", "ttl"}}

\* C11: the stored cache object only changes by being replaced, in one
\* step, by the whole object one execution of build_feed has made; so the
\* object a GET returns has its feed items, timestamp, oldest_timestamp and
\* blueprint_hash from one build, also when a build runs during the read;
\* and a task that waits for a GET can take its step whatever the builds do
C11_SnapshotWhole ==
  /\ [][/\ store' # store =>
              \E task \in Live : task.pc = "post" /\ store' = task.data
         /\ WholeSnapshot(get_cache_from_api)']_vars
  /\ [](\A task \in Readers :
          ENABLED (FirstCheck(task) \/ SecondCheck(task) \/ TtlCheck(task)))

\* a read holds the items of the snapshot it found while a build that ran
\* during the read has replaced the snapshot by another one with items
C11_Witness ==
  \E task \in Readers :
    /\ task.pc = "ttl"
    /\ store.feed # <<>> /\ task.cached # store.feed
    /\ BuildsOfUri = 1
\* ------------------------------------------------------------------------
\* C12
\* ------------------------------------------------------------------------
\* the largest offset a cursor of PageCursors stands for
MaxOffset == MaxEntries + 10

\* how many items lie at the offsets c .. c + L - 1 of a list of n
Among(c, L, n) ==
  IF c >= n THEN 0 ELSE IF c + L >= n THEN n - c ELSE L

UnparsableCursors ==
  {NoCursor, Cursor(<<"a", "b", "c">>), Cursor(<<>>),
   Cursor(<<"1", ".", "5">>), Cursor(<<"2", "0", "x">>)}

\* C13: a read with a cursor that is no integer ends by returning, and
\* what it returns is the page and the next cursor a read of the same
\* entries with the same limit returns for the cursor "0"
C13_UnparsableIsZero ==
  (ReadEnded /\ last.cursor \in UnparsableCursors) =>
     /\ last.outcome = "returned"
     /\ last.body = Page(last.cached, ParseCursor(Cursor(<<"0">>)),
                         last.limit)
     /\ last.body.feed = Take(last.cached, last.limit)

\* the cursor "1.5" has been answered with the first page of a snapshot
\* that has more than one page
C13_Witness ==
  /\ ReadEnded /\ last.cursor = Cursor(<<"1", ".", "5">>)
  /\ last.limit = 10 /\ Len(last.cached) = 25
  /\ last.body.cursor = <<"1", "0">> /\ Len(last.body.feed) = 10
\* ------------------------------------------------------------------------
\* C14
\* ------------------------------------------------------------------------
\* C14: whatever the gathered fetches return, the list that goes on to the
\* sampling and the hydration holds no uri twice, and holds every uri that
\* is in some fetch's result (and no other)
C14_AggregateDistinct ==
  (probe.kind = "gather" /\ probe.done) =>
     /\ \A i, j \in 1..Len(probe.collected) :
          probe.collected[i] = probe.collected[j] => i = j
     /\ \A f \in 1..Len(probe.results) : \A i \in 1..Len(probe.results[f]) :
          \E k \in 1..Len(probe.collected) :
            probe.collected[k] = probe.results[f][i]
     /\ \A k \in 1..Len(probe.collected) :
          \E f \in 1..Len(probe.results) :
            \E i \in 1..Len(probe.results[f]) :
              probe.collected[k] = probe.results[f][i]

\* one fetch has returned p2 twice and another p1 and p2: two candidates
C14_Witness ==
  /\ probe.kind = "gather" /\ probe.done
  /\ probe.results = <<<<"p2", "p2">>, <<"p1", "p2">>>>
  /\ probe.collected = <<"p2", "p1">>
\* ------------------------------------------------------------------------
\* C15
\* ------------------------------------------------------------------------
\* the admission loop and the sort have run and have made a snapshot
AdmitDone == probe.kind = "admit" /\ probe.done /\ ~probe.raised

Candidates == 1..Len(probe.collected)

\* the candidate a uri of the snapshot stands for
CandidateOf(uri) == CHOOSE k \in Candidates : probe.collected[k] = uri

\* the candidates whose uri is in the snapshot
Admitted ==
  {CandidateOf(probe.data.feed[i]) : i \in 1..Len(probe.data.feed)}

\* the candidate is rejected by none of the block, keyword, timestamp and
\* age rules
Eligible(k) ==
  /\ ~should_block_post(probe.full_posts[k], BlockedDids(probe.feed),
                        BannedKeywords(probe.feed))
  /\ probe.full_posts[k].createdAt # NoTime
  /\ ~TooOld(probe.full_posts[k].createdAt, probe.now)

\* C15: in the snapshot of a build no author did is on more than
\* MAX_PER_AUTHOR entries, and a candidate with an author did that no other
\* rule rejects is admitted exactly when fewer than MAX_PER_AUTHOR earlier
\* candidates of that author passed those rules: the count starts at zero
\* and rejected candidates are not counted
C15_AuthorCap ==
  AdmitDone =>
    /\ \A k \in Candidates :
         probe.full_posts[k].did # <<>> =>
           Cardinality({j \in Admitted : probe.full_posts[j].did =
                                         probe.full_posts[k].did})
             <= MAX_PER_AUTHOR
    /\ \A k \in Candidates :
         (Eligible(k) /\ probe.full_posts[k].did # <<>>) =>
           (k \in Admitted <=>
              Cardinality({j \in 1..(k - 1) :
                             /\ Eligible(j)
                             /\ probe.full_posts[j].did =
                                probe.full_posts[k].did})
                < MAX_PER_AUTHOR)

\* of twelve candidates of one author the third has a banned keyword: the
\* eleventh is the tenth to be admitted, the twelfth is left out
C15_Witness ==
  /\ AdmitDone /\ Len(probe.collected) = MAX_PER_AUTHOR + 2
  /\ ~Eligible(3)
  /\ \A k \in Candidates : probe.full_posts[k].did = <<"did:a">>
  /\ Admitted = (1..(MAX_PER_AUTHOR + 1)) \ {3}

\* ------------------------------------------------------------------------
\* C16
\* ------------------------------------------------------------------------
\* C16: every entry of the snapshot carries the creation time of its post
\* and that time lies at most MAX_AGE_SECONDS before the time of the build;
\* a candidate whose post is older is not in the snapshot
C16_AdmittedNotOld ==
  AdmitDone =>
    /\ \A i \in 1..Len(probe.filtered_posts) :
         LET entry == probe.filtered_posts[i]
         IN  /\ entry.timestamp =
                  probe.full_posts[CandidateOf(entry.uri)].createdAt
             /\ probe.now - entry.timestamp <= MAX_AGE_SECONDS
    /\ \A k \in Candidates :
         probe.now - probe.full_posts[k].createdAt > MAX_AGE_SECONDS =>
           k \notin Admitted

\* a post exactly MAX_AGE_SECONDS old is admitted, one a second older is not
C16_Witness ==
  /\ AdmitDone /\ Len(probe.collected) = 2
  /\ probe.now - probe.full_posts[1].createdAt = MAX_AGE_SECONDS
  /\ probe.now - probe.full_posts[2].createdAt = MAX_AGE_SECONDS + 1
  /\ Admitted = {1}

\* ------------------------------------------------------------------------
\* C17
\* ------------------------------------------------------------------------
\* the identifiers of the feed's sources of a type
IdentifiersOf(source_type) ==
  {probe.feed.sources[i].identifier : i \in
     {j \in 1..Len(probe.feed.sources) :
        probe.feed.sources[j].source_type = source_type}}

\* C17: no entry of the snapshot of a build stands for a post whose author
\* did is a profile_filter of the feed, whose lower-cased text contains a
\* lower-cased topic_filter of the feed, whose createdAt is missing or not
\* parsable, or whose hydration returned {}
C17_NoBlockedEntry ==
  AdmitDone =>
    \A k \in Admitted :
      /\ probe.full_posts[k].present
      /\ probe.full_posts[k].did \notin IdentifiersOf("profile_filter")
      /\ \A kw \in IdentifiersOf("topic_filter") :
           ~IsSubstring(Lower(kw), Lower(probe.full_posts[k].text))
      /\ probe.full_posts[k].createdAt # NoTime

\* a post whose text holds the banned keyword in other letter case is left
\* out, the post after it is admitted
C17_Witness ==
  /\ AdmitDone /\ Len(probe.collected) = 2
  /\ probe.full_posts[1].text = <<"c", "B", "a", "c">>
  /\ <<"b", "A">> \in IdentifiersOf("topic_filter")
  /\ Admitted = {2}

\* ------------------------------------------------------------------------
\* C18
\* ------------------------------------------------------------------------
\* C18: the entries of a snapshot are in the order of filtered_posts, and of
\* two adjacent entries the first has the higher score, or the same score
\* and a creation time that is not earlier
C18_SortedByScoreThenTime ==
  AdmitDone =>
    /\ probe.data.feed =
         [i \in 1..Len(probe.filtered_posts) |-> probe.filtered_posts[i].uri]
    /\ \A i \in 1..(Len(probe.filtered_posts) - 1) :
         LET a == probe.filtered_posts[i]
             b == probe.filtered_posts[i + 1]
         IN  \/ a.rank_score > b.rank_score
             \/ a.rank_score = b.rank_score /\ a.timestamp >= b.timestamp

\* two entries with one score: the newer stands first though its candidate
\* came later
C18_Witness ==
  /\ AdmitDone
  /\ \E i \in 1..(Len(probe.filtered_posts) - 1) :
       LET a == probe.filtered_posts[i]
           b == probe.filtered_posts[i + 1]
       IN  /\ a.rank_score = b.rank_score
           /\ a.timestamp > b.timestamp
           /\ CandidateOf(a.uri) > CandidateOf(b.uri)
\* ------------------------------------------------------------------------
\* C19
\* ------------------------------------------------------------------------
ScoreDone == probe.kind = "score" /\ probe.done

\* the sum of three weights
WeightSum(w) == w.relevance + w.popularity + w.recency

\* C19: for weights that are not all zero each weight used is the weight
\* given divided by the sum of the three, so the weights used sum to 1; for
\* three zeros each weight used is 1/3.  (A weight used is
\* probe.weights / probe.denominator.)
C19_WeightsNormalized ==
  ScoreDone =>
    /\ probe.denominator > 0
    /\ WeightSum(probe.weights) = probe.denominator
    /\ IF WeightSum(probe.ranking_weights) > 0
       THEN \A f \in {"relevance", "popularity", "recency"} :
              probe.weights[f] * WeightSum(probe.ranking_weights) =
                probe.ranking_weights[f] * probe.denominator
       ELSE \A f \in {"relevance", "popularity", "recency"} :
              3 * probe.weights[f] = probe.denominator

\* the weights 200, 1000 and 0 have been used as 200/1200, 1000/1200 and 0
C19_Witness ==
  /\ ScoreDone
  /\ probe.ranking_weights =
       [relevance |-> 200, popularity |-> 1000, recency |-> 0]
  /\ probe.weights.popularity * 1200 = 1000 * probe.denominator
  /\ probe.weights.relevance * 1200 = 200 * probe.denominator
  /\ probe.weights.recency = 0

\* ------------------------------------------------------------------------
\* C20
\* ------------------------------------------------------------------------
\* C20: for non-negative counters, topic weights in [0, 1], non-negative
\* ranking weights and a post of any age, compute_ranking_score returns a
\* score, and the score is in [0, 1].  (The score is
\* probe.score / probe.denominator, in thousandths.)
C20_ScoreInUnitInterval ==
  ScoreDone =>
    /\ probe.score # ScoreError
    /\ 0 <= probe.score
    /\ probe.score <= UNIT * probe.denominator
\* ------------------------------------------------------------------------
\* C21
\* ------------------------------------------------------------------------
RelevanceDone == probe.kind = "relevance" /\ probe.done

\* the rows of the topic preferences whose lower-cased name is in the
\* lower-cased text of the post
MatchingTopics ==
  {i \in 1..Len(probe.topic_preferences) :
     IsSubstring(Lower(probe.topic_preferences[i].name),
                 Lower(probe.full_post.text))}

RECURSIVE WeightOfRows(_)
WeightOfRows(rows) ==
  IF rows = {} THEN 0
  ELSE LET i == CHOOSE r \in rows : TRUE
       IN  probe.topic_preferences[i].weight + WeightOfRows(rows \ {i})

AuthorPreferred == probe.full_post.did \in probe.profile_preferences

\* C21: the relevance of a post is min(1.0, P + S), P being 1.0 for a post of
\* a preferred author and 0 otherwise, S the sum of the weights of the topic
\* preferences whose lower-cased name is in the lower-cased text; a post of a
\* preferred author has relevance 1.0.  (Relevance is in thousandths.)
C21_RelevanceIsCappedSum ==
  RelevanceDone =>
    /\ probe.relevance =
         Min2(UNIT, (IF AuthorPreferred THEN UNIT ELSE 0)
                    + WeightOfRows(MatchingTopics))
    /\ AuthorPreferred => probe.relevance = UNIT

\* two topics match the text of a post of an author who is not preferred,
\* their weights add up to more than 1.0 and the relevance is 1.0
C21_Witness ==
  /\ RelevanceDone
  /\ ~AuthorPreferred
  /\ Cardinality(MatchingTopics) = 2
  /\ WeightOfRows(MatchingTopics) > UNIT
  /\ probe.relevance = UNIT

\* ------------------------------------------------------------------------
\* C22
\* ------------------------------------------------------------------------
CompareDone == probe.kind = "compare" /\ probe.done

ScheduleDone == probe.kind = "schedule" /\ probe.done

\* how many of the scheduled coroutines are this call with this argument
TimesScheduled(call, arg) ==
  Cardinality({i \in 1..Len(probe.tasks) :
                 probe.tasks[i] = [call |-> call, arg |-> arg]})

RowsOfType(source_type) ==
  {i \in 1..Len(probe.sources) : probe.sources[i].source_type = source_type}

AcronymRows ==
  {i \in RowsOfType("topic_preference") : probe.sources[i].is_acronym # 0}

\* C23: a build schedules one fetch_author_posts per profile preference;
\* for a topic preference flagged as an acronym one search_vector on
\* "context identifier", or on the identifier when it has no context, and no
\* search_text; for any other topic preference one search_text and one
\* search_vector on the identifier; nothing for a filter, so no source has
\* more than two calls.
C23_FetchesScheduled ==
  ScheduleDone =>
    /\ \A i \in RowsOfType("profile_preference") :
         TimesScheduled("fetch_author_posts", probe.sources[i].identifier) = 1
    /\ \A i \in AcronymRows :
         LET src == probe.sources[i]
         IN  /\ TimesScheduled("search_vector",
                           IF src.context = <<>> THEN src.identifier
                           ELSE src.context \o <<" ">> \o src.identifier) = 1
             /\ TimesScheduled("search_text", src.identifier) = 0
    /\ \A i \in RowsOfType("topic_preference") \ AcronymRows :
         /\ TimesScheduled("search_text", probe.sources[i].identifier) = 1
         /\ TimesScheduled("search_vector", probe.sources[i].identifier) = 1
    /\ Len(probe.tasks) =
         Cardinality(RowsOfType("profile_preference"))
         + Cardinality(AcronymRows)
         + 2 * Cardinality(RowsOfType("topic_preference") \ AcronymRows)

\* an acronym with a context, a plain topic and a filter: three searches
C23_Witness ==
  /\ ScheduleDone
  /\ \E i \in AcronymRows : probe.sources[i].context # <<>>
  /\ RowsOfType("topic_preference") \ AcronymRows # {}
  /\ RowsOfType("topic_filter") # {}
  /\ Len(probe.tasks) = 3

\* ------------------------------------------------------------------------
\* C24
\* ------------------------------------------------------------------------
SampleDone == probe.kind = "sample" /\ probe.done

\* C24: hydration is handed at most FEED_LIMIT * max(2, 10 / MAX_PER_AUTHOR)
\* = 200 candidates: that many distinct members of the deduplicated list
\* when the list is longer, and the list itself, in its order, when it is
\* not.
C24_SampleBounded ==
  SampleDone =>
    /\ target_collected = 200
    /\ Len(probe.sampled) <= target_collected
    /\ IF Len(probe.collected) > target_collected
       THEN /\ Len(probe.sampled) = target_collected
            /\ \A i \in 1..Len(probe.sampled) :
                 \E j \in 1..Len(probe.collected) :
                   probe.sampled[i] = probe.collected[j]
            /\ \A i, j \in 1..Len(probe.sampled) :
                 probe.sampled[i] = probe.sampled[j] => i = j
       ELSE probe.sampled = probe.collected

\* 202 candidates have been cut down to 200 that are not the first 200 in
\* their order
C24_Witness ==
  /\ SampleDone
  /\ Len(probe.collected) = target_collected + 2
  /\ Len(probe.sampled) = target_collected
  /\ probe.sampled # SubSeq(probe.collected, 1, target_collected)

\* ------------------------------------------------------------------------
\* C25
\* ------------------------------------------------------------------------
Hydrating == probe.kind = "hydrate"

\* C25: in the hydration of a build at most 10 fetch_full_post calls are
\* under way at any moment, however many candidates there are, and the call
\* of every candidate is made and ends.
C25_AtMostTenInFlight ==
  /\ [](Hydrating => Cardinality(probe.flight) <= 10)
  /\ <>(Hydrating /\ probe.ended = 1..Len(probe.collected))

\* the eleventh candidate is hydrated among ten calls under way, with the
\* twelfth still waiting
C25_Witness ==
  /\ Hydrating
  /\ 11 \in probe.flight
  /\ Cardinality(probe.flight) = 10
  /\ probe.waiters = <<12>>

\* ------------------------------------------------------------------------
\* C26
\* ------------------------------------------------------------------------
\* C26: a read is served only feed items that were aggregated, filtered and
\* ranked from the configuration that is current when the read classifies
\* the snapshot: a snapshot that serve_from_cache finds valid was built from
\* the rows and weights the feed has at that time, also when they were
\* changed while the build was under way.
C26_ServedFromCurrentConfig ==
  \A task \in Live :
    (/\ task.pc \in {"sfc1", "sfc2"}
     /\ Classify(get_cache_from_api, feed, now) = "valid") =>
      get_cache_from_api.built_from = compute_blueprint_hash(feed)

\* ------------------------------------------------------------------------
\* C27
\* ------------------------------------------------------------------------
\* the task takes a step
Steps(task) == CopiesIn(task, tasks') < CopiesIn(task, tasks)

\* the task is at a call of maybe_build_feed: a read that finds no valid
\* snapshot, or the task a read has created for the rebuild
Triggers(task) ==
  \/ task.pc = "mb"
  \/ task.pc = "sfc1" /\ Classify(get_cache_from_api, feed, now) # "valid"

\* C27: the guard of a handler is released after every build, whether
\* build_feed returns or raises: build_in_progress is false whenever no
\* build_feed of the handler is executing, and a trigger that arrives then
\* starts a build.
C27_GuardReleased ==
  /\ [](\A h \in Handlers : Builds(h) = 0 => ~build_in_progress[h])
  /\ [][\A task \in Live :
          (Triggers(task) /\ Steps(task) /\ Builds(task.h) = 0) =>
            (Builds(task.h) = 1)']_vars

\* a build has just raised and left its handler with the guard open
C27_Witness ==
  /\ ReadEnded
  /\ last.trigger = "raised"
  /\ \A h \in Handlers : Builds(h) = 0 /\ ~build_in_progress[h]

\* ------------------------------------------------------------------------
\* C28
\* ------------------------------------------------------------------------
\* a build is between its start and its cache write
BeforeWrite == \E task \in Live : task.pc \in {"fetch", "hydrate"}

\* a build raises: it leaves build_feed from before its cache write
Raises ==
  \E task \in Live :
    /\ task.pc \in {"fetch", "hydrate"}
    /\ Steps(task)
    /\ (Builds(task.h))' < Builds(task.h)

\* C28: a build that raises before its cache write leaves the stored
\* snapshot as it was when the build began: no step taken while the build
\* is under way changes it, the step that raises included, so that what a
\* later read is handed for classification is the same.
C28_FailedBuildLeavesStore ==
  [][/\ BeforeWrite => store' = store
     /\ Raises => (get_cache_from_api)' = get_cache_from_api]_vars

\* the build a read started over an empty store has raised, and the store
\* is still empty
C28_Witness ==
  /\ ReadEnded
  /\ last.first = "absent"
  /\ last.trigger = "raised"
  /\ get_cache_from_api = NoSnapshot

\* ------------------------------------------------------------------------
\* C29
\* ------------------------------------------------------------------------
\* a read has been served from a snapshot it found valid and over the TTL,
\* and has created the rebuild task
StaleServed ==
  /\ ReadEnded
  /\ last.outcome = "returned"
  /\ last.first = "valid"
  /\ last.spawned

\* the stored snapshot is one that was built in this process
Refreshed ==
  /\ get_cache_from_api.present
  /\ get_cache_from_api.timestamp = now

\* C29: when a read finds a valid snapshot over the TTL, the configuration
\* stays as it is and the build and its store write succeed, the snapshot is
\* eventually replaced by one with a newer build time; a read that ends
\* after that, within the TTL of that build time, is served the items of the
\* new snapshot and creates no rebuild task.
C29_StaleReadRefreshes ==
  /\ StaleServed ~> Refreshed
  /\ [](StaleServed => get_cache_from_api.timestamp < now - FEED_CACHE_TTL)
  /\ []((Refreshed /\ ReadEnded) =>
          /\ last.outcome = "returned"
          /\ last.cached = get_cache_from_api.feed
          /\ last.age <= FEED_CACHE_TTL
          /\ ~last.spawned)

\* a read has been served from the snapshot of the build a stale read
\* set off, and has set off none
C29_Witness ==
  /\ Refreshed
  /\ ReadEnded
  /\ last.outcome = "returned"
  /\ last.age = 0
  /\ ~last.spawned
  /\ \A h \in Handlers : Builds(h) = 0

\* ------------------------------------------------------------------------
\* C30
\* ------------------------------------------------------------------------
PairingDone == probe.kind = "pairing" /\ probe.done /\ ~probe.raised

\* what the hydration call issued for the candidate at a position returned
AnswerFor(position) ==
  fetch_full_post_of(probe.kinds[position], position,
                     probe.outcomes[position])

\* where in the candidate list a uri is
PositionOf(uri) ==
  CHOOSE position \in 1..Len(probe.collected) :
    probe.collected[position] = uri

\* C30: within one build the entry of a uri is filtered and scored with the
\* answer of the hydration call issued for that uri, in whatever order the
\* calls complete; the candidates are examined for admission in the order
\* of the candidate list.
C30_AnswersPairedByPosition ==
  PairingDone =>
    /\ \A position \in 1..Len(probe.collected) :
         probe.full_posts[position] = AnswerFor(position)
    /\ \A k \in 1..Len(probe.admitted) :
         LET position == PositionOf(probe.admitted[k].uri)
         IN  /\ AnswerFor(position).present
             /\ probe.admitted[k].timestamp = AnswerFor(position).createdAt
             /\ ~should_block_post(AnswerFor(position),
                                   BlockedDids(probe.feed),
                                   BannedKeywords(probe.feed))
             /\ probe.admitted[k].rank_score =
                  compute_ranking_score(AnswerFor(position),
                    AnswerFor(position).createdAt, probe.now,
                    get_ranking_weights(probe.feed),
                    TopicPreferences(probe.feed.sources),
                    ProfilePreferences(probe.feed.sources))
    /\ \A j, k \in 1..Len(probe.admitted) :
         j < k => PositionOf(probe.admitted[j].uri)
                    < PositionOf(probe.admitted[k].uri)

\* the answers arrived in the reverse of the order of the candidates, the
\* second candidate is of a blocked author, and the first and the third
\* have been admitted in that order
C30_Witness ==
  /\ PairingDone
  /\ probe.arrived = <<3, 2, 1>>
  /\ probe.kinds = <<"good", "blocked", "other">>
  /\ Len(probe.admitted) = 2
  /\ probe.admitted[1].uri = PostUri(1)
  /\ probe.admitted[2].uri = PostUri(3)

\* a build of the snapshot specification has produced its snapshot
SnapshotDone == probe.kind = "snapshot" /\ probe.done /\ ~probe.raised

\* the creation times of the posts a snapshot's entries stand for
SnapshotTimes ==
  {probe.posts[probe.data.feed[i]].createdAt :
     i \in 1..Len(probe.data.feed)}

\* C31: a snapshot produced by a build holds at most FEED_LIMIT entries,
\* their uris are pairwise distinct, and its oldest_timestamp is null
\* exactly when it has no entries and otherwise is the least creation time
\* over exactly the entries it holds
C31_SnapshotBoundedDistinctOldest ==
  SnapshotDone =>
    /\ probe.data.present
    /\ Len(probe.data.feed) <= FEED_LIMIT
    /\ \A i, j \in 1..Len(probe.data.feed) :
         probe.data.feed[i] = probe.data.feed[j] => i = j
    /\ (probe.data.oldest_timestamp = NoTime) <=> (probe.data.feed = <<>>)
    /\ probe.data.feed # <<>> =>
         /\ probe.data.oldest_timestamp \in SnapshotTimes
         /\ \A t \in SnapshotTimes : probe.data.oldest_timestamp <= t

\* more than FEED_LIMIT admissible candidates, one of them fetched twice,
\* gave a snapshot of FEED_LIMIT entries of different creation times
C31_Witness ==
  /\ SnapshotDone
  /\ Len(Flatten(probe.results)) > Len(probe.collected)
  /\ Len(probe.collected) > FEED_LIMIT
  /\ Len(probe.data.feed) = FEED_LIMIT
  /\ Cardinality(SnapshotTimes) > 1

\* candidates that were all too old gave a snapshot without entries
C31_EmptyWitness ==
  /\ SnapshotDone
  /\ probe.collected # <<>>
  /\ probe.data.feed = <<>>
  /\ probe.data.oldest_timestamp = NoTime

\* the (source_type, identifier, weight) tuples of the rows of a feed
SourceTuples(config) ==
  {<<config.sources[i].source_type, config.sources[i].identifier,
     config.sources[i].weight>> : i \in 1..Len(config.sources)}

\* C32: the hash depends only on the set of (kind, identifier, weight)
\* tuples of the sources and on the ranking weights: feeds with the same
\* tuples inserted in different orders, and with different acronym flags
\* and contexts, have one hash, and computing it again gives it again
C32_HashOfTuplesAndWeights ==
  probe.kind = "hash" =>
    /\ ( /\ {"first", "second"} \subseteq probe.done
         /\ SourceTuples(probe.feed) = SourceTuples(probe.other)
         /\ get_ranking_weights(probe.feed) = get_ranking_weights(probe.other)
       ) => probe.first = probe.second
    /\ {"first", "again"} \subseteq probe.done => probe.again = probe.first

\* both feeds are hashed, the first twice; they have three topic rows in
\* different insertion orders, and a row that differs in the acronym flag
\* and the context only
C32_Witness ==
  /\ probe.kind = "hash"
  /\ probe.done = {"first", "again", "second"}
  /\ Len(probe.feed.sources) >= 3
  /\ SourceTuples(probe.feed) = SourceTuples(probe.other)
  /\ probe.feed.sources[1].identifier # probe.other.sources[1].identifier
  /\ \E i, j \in 1..Len(probe.feed.sources) :
       /\ SameKey(probe.feed.sources[i], probe.other.sources[j])
       /\ probe.feed.sources[i].is_acronym # probe.other.sources[j].is_acronym
       /\ probe.feed.sources[i].context # probe.other.sources[j].context
  /\ probe.first = probe.second

\* a string is the decimal form of a non-negative integer
IsOffsetString(str) == str # <<>> /\ \A i \in 1..Len(str) : IsDigit(str[i])

\* C33: for every cursor string, those that parse as negative integers
\* among them, and every limit >= 1, the cursor a read returns is the
\* decimal form of a non-negative integer that is 0 or an offset below the
\* number of feed items of the snapshot
C33_NextCursorInRange ==
  (ReadEnded /\ last.outcome = "returned" /\ last.limit >= 1) =>
    /\ IsOffsetString(last.body.cursor)
    /\ \/ DecimalValue(last.body.cursor) = 0
       \/ DecimalValue(last.body.cursor) < Len(last.cached)

\* ceil(n / L), and 1 for n = 0: the reads a caller needs for n feed items
ReadsNeeded(n, limit) ==
  IF n = 0 THEN 1 ELSE (n + limit - 1) \div limit

\* C34: over a snapshot that stays as it is, with n feed items, a caller
\* that starts at cursor "0" with a limit L >= 1 and sends each returned
\* cursor gets cursor "0" back from read number ceil(n/L) (from the first
\* read for n = 0) and from none before, and the pages it got, one after
\* the other, are the feed items of the snapshot, each once and in order
C34_SessionCoversSnapshot ==
  (probe.kind = "session" /\ ~probe.changed) =>
    LET need == ReadsNeeded(Len(probe.entries), probe.limit)
    IN  /\ probe.reads <= need
        /\ probe.reads < need => ~probe.done
        /\ probe.reads = need => probe.done /\ probe.pages = probe.entries

\* the same for a snapshot that has feed items
C34_SessionCoversNonEmpty ==
  probe.kind = "session" /\ probe.entries # <<>> =>
    C34_SessionCoversSnapshot

\* a caller has got the MaxEntries feed items of a snapshot in pages of 10
C34_NonEmptyWitness ==
  /\ probe.kind = "session" /\ probe.done
  /\ probe.limit = 10 /\ Len(probe.entries) = MaxEntries
  /\ probe.reads = ReadsNeeded(MaxEntries, 10)
  /\ probe.pages = probe.entries

====
